---------------------------- MODULE Spec2Model ----------------------------
(***************************************************************************)
(* Model of the YPBank format codec layer (crate `parser`): the canonical  *)
(* transaction model, the conversion layer between per-format records and  *)
(* the canonical model, and the binary / CSV / Text readers and writers.   *)
(*                                                                         *)
(* Representation.                                                         *)
(*  - A string is a sequence of one-character strings; a byte stream is a  *)
(*    sequence of numbers 0..255.                                          *)
(*  - Option<String> is a sequence of length 0 (None) or 1 (Some(s)).      *)
(*  - u64 / i64 are modelled with a scaled width of Bits bits: u64 is      *)
(*    0..U64_MAX and i64 is I64_MIN..I64_MAX with U64_MAX = 2*I64_MAX + 1  *)
(*    and I64_MIN = -I64_MAX - 1, as for the real widths.  On the wire a   *)
(*    field still takes its real number of bytes (8 or 4, big-endian,      *)
(*    two's complement).                                                   *)
(*  - A Result is a record [kind, val, line, actual, limit]; kind is "Ok"  *)
(*    or the name of the ParseError variant.                               *)
(***************************************************************************)
EXTENDS Integers, Sequences, FiniteSets, TLC

VARIABLES
    pc,        \* position of the run
    fmt,       \* format tag of the run (YPFormatSupported)
    recs,      \* per-format records held in memory
    stream,    \* contents of the file being read or written
    damage,    \* what was done to the file between writing and reading, or
               \* the fault of the writer it is written to
    rd,        \* locals of the read_from or write_to that is running
    result,    \* value returned by read_from, read_executor, write_to or
               \* execute_compare_task
    txs,       \* canonical transactions (YPBankTransaction)
    conv,      \* value returned by a conversion to the canonical model
    back,      \* value returned by a conversion from the canonical model
    files,     \* the output files of convert_transactions, per format
    parsed     \* value returned by to_transaction, per format

vars == <<pc, fmt, recs, stream, damage, rd, result, txs, conv, back, files, parsed>>

---------------------------------------------------------------------------
(* Bounds of the model *)

\* scaled width, in bits, of u64 and i64
Bits == 4
\* longest record list handed to a writer
MaxRecs == 3
\* longest list of canonical transactions exported and imported again
MaxTxs == 2
\* longest record list whose written file is edited before it is read
MaxEdited == 2
\* longest input of the Text parser run line by line, in pieces
MaxLines == 4
\* the greatest length of a line given to split_csv_line
MaxChars == 5

U64_MAX == 2^Bits - 1
I64_MAX == 2^(Bits - 1) - 1
I64_MIN == -(2^(Bits - 1))

---------------------------------------------------------------------------
(* Program constants *)

MI_B == 1048576
MAX_SIZE_BIN_BYTES == 8 * MI_B
MAX_SIZE_CSV_TXT_BYTES == 4 * MI_B
MAGIC_SIZE == 4
MAGIC == <<89, 80, 66, 78>>

Formats == {"csv", "txt", "bin"}
TxTypes == {"Deposit", "Transfer", "Withdrawal"}
TxStatuses == {"Success", "Failure", "Pending"}

---------------------------------------------------------------------------
(* Results and options *)

None == <<>>
Some(s) == <<s>>

Ok(v) == [kind |-> "Ok", val |-> v, line |-> 0, actual |-> 0, limit |-> 0]
Err(k, l) == [kind |-> k, val |-> <<>>, line |-> l, actual |-> 0, limit |-> 0]
IsOk(r) == r.kind = "Ok"
IsErr(r) == r.kind # "Ok"
NoResult == [kind |-> "none", val |-> <<>>, line |-> 0, actual |-> 0, limit |-> 0]

\* ParseError::lim_exceed
lim_exceed(actual, limit) ==
    [kind |-> "SizeLimitExceeded", val |-> <<>>, line |-> 0,
     actual |-> actual, limit |-> limit]

---------------------------------------------------------------------------
(* Conversion layer (models.rs) *)

\* faulty variant of AmountTryIntoI64: i64::MAX itself is refused
AmountTryIntoI64_AtMax(f, amount) ==
    IF f # "bin" /\ amount >= I64_MAX
    THEN Err("OverflowSize", 0)
    ELSE Ok(amount)

\* i64::try_from of a per-format amount: u64 for CSV/Text, i64 for Binary
AmountTryIntoI64(f, amount) ==
    IF f # "bin" /\ amount > I64_MAX
    THEN Err("OverflowSize", 0)
    ELSE Ok(amount)

\* faulty variant of NormalizeSign: the sign is never derived from the type
NormalizeSign_NoNegate(tx_type, amount) == amount

\* faulty variant of NormalizeSign: an already-negative amount is negated again
NormalizeSign_Renegate(tx_type, amount) ==
    IF tx_type \in {"Transfer", "Withdrawal"} THEN -amount ELSE amount

\* the sign of the canonical amount, derived from the transaction type
NormalizeSign(tx_type, amount) ==
    IF tx_type \in {"Transfer", "Withdrawal"} /\ amount > 0
    THEN -amount
    ELSE amount

\* source.description.into(): String -> Some(s); Option<String> -> itself
DescriptionInto(f, description) ==
    IF f = "bin" THEN description ELSE Some(description)

\* impl TryFrom<$source_type> for YPBankTransaction
ToTransaction(f, source) ==
    LET a == AmountTryIntoI64(f, source.amount) IN
    IF IsErr(a) THEN a
    ELSE Ok([tx_id        |-> source.tx_id,
             tx_type      |-> source.tx_type,
             from_user_id |-> source.from_user_id,
             to_user_id   |-> source.to_user_id,
             amount       |-> NormalizeSign(source.tx_type, a.val),
             timestamp    |-> source.timestamp,
             status       |-> source.status,
             description  |-> DescriptionInto(f, source.description)])

\* i64::unsigned_abs
unsigned_abs(amount) == IF amount < 0 THEN -amount ELSE amount

\* impl TryFrom<YPBankTransaction> for YPBankCsvFormat / YPBankTextFormat
FromTransactionText(value) ==
    Ok([tx_id        |-> value.tx_id,
        tx_type      |-> value.tx_type,
        from_user_id |-> value.from_user_id,
        to_user_id   |-> value.to_user_id,
        amount       |-> unsigned_abs(value.amount),
        timestamp    |-> value.timestamp,
        status       |-> value.status,
        description  |-> IF value.description = None THEN <<>>
                         ELSE value.description[1]])

\* impl TryFrom<YPBankTransaction> for YPBankBinFormat
FromTransactionBin(value) ==
    Ok([tx_id        |-> value.tx_id,
        tx_type      |-> value.tx_type,
        from_user_id |-> value.from_user_id,
        to_user_id   |-> value.to_user_id,
        amount       |-> value.amount,
        timestamp    |-> value.timestamp,
        status       |-> value.status,
        desc_len     |-> IF value.description = None THEN 0
                         ELSE Len(value.description[1]),
        description  |-> value.description])

FromTransaction(f, value) ==
    IF f = "bin" THEN FromTransactionBin(value) ELSE FromTransactionText(value)

---------------------------------------------------------------------------
(* Bytes and characters *)

\* the printable ASCII characters, code 32 to 126, in code order (the grave
\* accent, code 96, is spelled out: it cannot be written in a string)
AsciiTable ==
    <<" ", "!", "\"", "#", "$", "%", "&", "'", "(", ")", "*", "+", ",", "-",
      ".", "/", "0", "1", "2", "3", "4", "5", "6", "7", "8", "9", ":", ";",
      "<", "=", ">", "?", "@", "A", "B", "C", "D", "E", "F", "G", "H", "I",
      "J", "K", "L", "M", "N", "O", "P", "Q", "R", "S", "T", "U", "V", "W",
      "X", "Y", "Z", "[", "\\", "]", "^", "_", "GRAVE", "a", "b", "c", "d", "e",
      "f", "g", "h", "i", "j", "k", "l", "m", "n", "o", "p", "q", "r", "s",
      "t", "u", "v", "w", "x", "y", "z", "{", "|", "}", "~">>

\* UTF-8 code of a character (the model's characters are ASCII)
CodeOf(c) ==
    CASE c = "\n" -> 10
      [] c = "\t" -> 9
      [] c = "\r" -> 13
      [] OTHER -> 31 + (CHOOSE i \in 1..Len(AsciiTable) : AsciiTable[i] = c)

\* str::as_bytes
as_bytes(str) == [i \in 1..Len(str) |-> CodeOf(str[i])]

\* whether a byte alone is a character of the model's alphabet
IsAscii(b) == b \in 32..126 \/ b \in {9, 10, 13}

CharOf(b) ==
    CASE b = 10 -> "\n"
      [] b = 9 -> "\t"
      [] b = 13 -> "\r"
      [] OTHER -> AsciiTable[b - 31]

\* String::from_utf8: a byte outside ASCII that starts no valid sequence is
\* an error (the model's streams hold no multi-byte sequences)
from_utf8(bytes) ==
    IF \A i \in 1..Len(bytes) : IsAscii(bytes[i])
    THEN Ok([i \in 1..Len(bytes) |-> CharOf(bytes[i])])
    ELSE Err("FromUtf8Error", 0)

RECURSIVE to_be_bytes(_, _)
\* uN::to_be_bytes: the k big-endian bytes of n >= 0
to_be_bytes(n, k) ==
    IF k = 0 THEN <<>> ELSE Append(to_be_bytes(n \div 256, k - 1), n % 256)

\* i64::to_be_bytes: two's complement, sign-extended to 8 bytes
i64_to_be_bytes(n) ==
    IF n >= 0 THEN to_be_bytes(n, 8)
    ELSE LET b == to_be_bytes(-n - 1, 8) IN [i \in 1..8 |-> 255 - b[i]]

RECURSIVE from_be_bytes(_)
\* uN::from_be_bytes
from_be_bytes(b) ==
    IF b = <<>> THEN 0
    ELSE from_be_bytes(SubSeq(b, 1, Len(b) - 1)) * 256 + b[Len(b)]

\* i64::from_be_bytes
i64_from_be_bytes(b) ==
    IF b[1] >= 128
    THEN -from_be_bytes([i \in 1..Len(b) |-> 255 - b[i]]) - 1
    ELSE from_be_bytes(b)

\* TxType::as_u8 / TxStatus::as_u8 (#[repr(u8)] discriminants)
TxType_as_u8(t) ==
    CASE t = "Deposit" -> 0 [] t = "Transfer" -> 1 [] t = "Withdrawal" -> 2

TxStatus_as_u8(t) ==
    CASE t = "Success" -> 0 [] t = "Failure" -> 1 [] t = "Pending" -> 2

\* TxType::from_u8 / TxStatus::from_u8: None for any other byte
TxType_from_u8(b) ==
    CASE b = 0 -> Some("Deposit") [] b = 1 -> Some("Transfer")
      [] b = 2 -> Some("Withdrawal") [] OTHER -> None

\* faulty variant of TxStatus_from_u8: an unknown byte is read as Pending
TxStatus_from_u8_Lenient(b) ==
    CASE b = 0 -> Some("Success") [] b = 1 -> Some("Failure")
      [] OTHER -> Some("Pending")

TxStatus_from_u8(b) ==
    CASE b = 0 -> Some("Success") [] b = 1 -> Some("Failure")
      [] b = 2 -> Some("Pending") [] OTHER -> None

---------------------------------------------------------------------------
(* Binary codec (format/bin.rs) *)

\* faulty variant of BinFromUser: the stored from_user_id is written for a Deposit
BinFromUser_AsStored(record) == record.from_user_id

\* write_to, FROM_USER: 0 for a Deposit
BinFromUser(record) ==
    IF record.tx_type = "Deposit" THEN 0 ELSE record.from_user_id

\* write_to, TO_USER: 0 for a Withdrawal
BinToUser(record) ==
    IF record.tx_type = "Withdrawal" THEN 0 ELSE record.to_user_id

\* write_to: the body of one record
BinBody(record) ==
    LET desc_bytes == IF record.description = None THEN <<>>
                      ELSE as_bytes(record.description[1])
    IN  to_be_bytes(record.tx_id, 8)
        \o <<TxType_as_u8(record.tx_type)>>
        \o to_be_bytes(BinFromUser(record), 8)
        \o to_be_bytes(BinToUser(record), 8)
        \o i64_to_be_bytes(record.amount)
        \o to_be_bytes(record.timestamp, 8)
        \o <<TxStatus_as_u8(record.status)>>
        \o to_be_bytes(Len(desc_bytes), 4)
        \o desc_bytes

\* write_to: MAGIC, the body length, the body
BinFrame(record) ==
    LET body == BinBody(record) IN MAGIC \o to_be_bytes(Len(body), 4) \o body

RECURSIVE BinWriteTo(_)
\* YPBankBinFormat::write_to on a writer that accepts every byte
BinWriteTo(records) ==
    IF records = <<>> THEN <<>>
    ELSE BinFrame(Head(records)) \o BinWriteTo(Tail(records))

\* validate_exceed_max_bytes(actual, limit)
validate_exceed_max_bytes(actual, limit) ==
    IF actual > limit THEN lim_exceed(actual, limit) ELSE Ok(actual)

\* the fixed part of a body: every field but the description
BIN_FIXED_LEN == 46

\* YPBankBinFormat::new_from_cursor on the bytes of one body
new_from_cursor(body) ==
    IF Len(body) < 9 THEN Err("ParseBinaryError", 0)
    ELSE IF TxType_from_u8(body[9]) = None THEN Err("ParseBinaryError", 0)
    ELSE IF Len(body) < 42 THEN Err("ParseBinaryError", 0)
    ELSE IF TxStatus_from_u8(body[42]) = None THEN Err("ParseBinaryError", 0)
    ELSE IF Len(body) < BIN_FIXED_LEN THEN Err("ParseBinaryError", 0)
    ELSE
      LET desc_len == from_be_bytes(SubSeq(body, 43, 46))
          fixed == [tx_id        |-> from_be_bytes(SubSeq(body, 1, 8)),
                    tx_type      |-> TxType_from_u8(body[9])[1],
                    from_user_id |-> from_be_bytes(SubSeq(body, 10, 17)),
                    to_user_id   |-> from_be_bytes(SubSeq(body, 18, 25)),
                    amount       |-> i64_from_be_bytes(SubSeq(body, 26, 33)),
                    timestamp    |-> from_be_bytes(SubSeq(body, 34, 41)),
                    status       |-> TxStatus_from_u8(body[42])[1],
                    desc_len     |-> desc_len]
      IN  IF desc_len = 0
          THEN Ok(fixed @@ [description |-> None])
          ELSE IF Len(body) - BIN_FIXED_LEN < desc_len THEN Err("IOError", 0)
          ELSE LET d == from_utf8(SubSeq(body, 47, 46 + desc_len)) IN
               IF IsErr(d) THEN Err("ParseBinaryError", 0)
               ELSE Ok(fixed @@ [description |-> Some(d.val)])

\* read_executor: the byte count compared with the ceiling and returned
read_executor_bytes(total_read_bytes, record_size) ==
    total_read_bytes + (4 + record_size)

\* YPBankBinFormat::read_executor, reading s from offset pos (after MAGIC).
\* Ok carries the record, the byte count returned and the new offset; an
\* error carries in `actual` the count that was compared, if one was.
read_executor(s, pos, total_read_bytes) ==
    IF Len(s) - pos < 4 THEN Err("ParseBinaryError", 0)
    ELSE
      LET record_size == from_be_bytes(SubSeq(s, pos + 1, pos + 4))
          current_bytes == read_executor_bytes(total_read_bytes, record_size)
          v == validate_exceed_max_bytes(current_bytes, MAX_SIZE_BIN_BYTES)
      IN  IF IsErr(v) THEN v
          ELSE IF Len(s) - (pos + 4) < record_size
               THEN [Err("IOError", 0) EXCEPT !.actual = current_bytes]
          ELSE LET r == new_from_cursor(SubSeq(s, pos + 5, pos + 4 + record_size))
               IN  IF IsErr(r) THEN [r EXCEPT !.actual = current_bytes]
                   ELSE Ok([record |-> r.val, bytes |-> current_bytes,
                            pos |-> pos + 4 + record_size])

\* a buffer allocated with vec![0u8; size]: remaining is the number of
\* bytes the source it is filled from still holds
Allocation(buffer, size, remaining) ==
    [buffer |-> buffer, size |-> size, remaining |-> remaining]

\* the buffers new_from_cursor allocates on the bytes of one body: desc_buf,
\* once desc_len is read and above zero
new_from_cursor_allocs(body) ==
    IF Len(body) < BIN_FIXED_LEN
       \/ TxType_from_u8(body[9]) = None
       \/ TxStatus_from_u8(body[42]) = None
       \/ from_be_bytes(SubSeq(body, 43, 46)) = 0
    THEN <<>>
    ELSE <<Allocation("desc_buf", from_be_bytes(SubSeq(body, 43, 46)),
                      Len(body) - BIN_FIXED_LEN)>>

\* the buffers read_executor allocates reading s from offset pos: body,
\* once the byte count has passed the ceiling test, then those of
\* new_from_cursor when the stream holds the whole body
read_executor_allocs(s, pos, total_read_bytes) ==
    IF Len(s) - pos < 4 THEN <<>>
    ELSE IF IsErr(validate_exceed_max_bytes(
                      read_executor_bytes(total_read_bytes,
                                          from_be_bytes(SubSeq(s, pos + 1, pos + 4))),
                      MAX_SIZE_BIN_BYTES))
         THEN <<>>
    ELSE <<Allocation("body", from_be_bytes(SubSeq(s, pos + 1, pos + 4)),
                      Len(s) - (pos + 4))>>
         \o (IF Len(s) - (pos + 4) < from_be_bytes(SubSeq(s, pos + 1, pos + 4))
             THEN <<>>
             ELSE new_from_cursor_allocs(
                      SubSeq(s, pos + 5,
                             pos + 4 + from_be_bytes(SubSeq(s, pos + 1, pos + 4)))))

\* the locals of read_from before the loop; allocated lists the buffers
\* allocated so far
BinReadInit ==
    [pos |-> 0, records |-> <<>>, total_read_bytes |-> 0,
     current_bytes |-> 0, declared |-> 0, allocated |-> <<>>]

\* what one pass of the loop of read_from does: "eof" (break), "magic" (the
\* magic differs), "error" (read_executor fails) or "record"
BinLoopCase(s, l) ==
    IF Len(s) - l.pos < MAGIC_SIZE THEN "eof"
    ELSE IF SubSeq(s, l.pos + 1, l.pos + MAGIC_SIZE) # MAGIC THEN "magic"
    ELSE IF IsErr(read_executor(s, l.pos + MAGIC_SIZE, l.total_read_bytes))
         THEN "error"
    ELSE "record"

\* faulty variant of bad_magic_error: the binary-decode kind
bad_magic_error_Binary(magic_buf) == Err("ParseBinaryError", 0)

\* read_from: the error returned when magic_buf differs from MAGIC
bad_magic_error(magic_buf) == Err("ParseError", 0)

\* the value read_from returns when a pass of the loop ends it
BinLoopReturn(s, l) ==
    CASE BinLoopCase(s, l) = "eof" -> Ok(l.records)
      [] BinLoopCase(s, l) = "magic" ->
            bad_magic_error(SubSeq(s, l.pos + 1, l.pos + MAGIC_SIZE))
      [] OTHER -> read_executor(s, l.pos + MAGIC_SIZE, l.total_read_bytes)

\* BODY_LEN of the frame at the reader's offset, when the stream holds it
BinDeclaredLen(s, l) ==
    IF Len(s) - l.pos < MAGIC_SIZE + 4 THEN 0
    ELSE from_be_bytes(SubSeq(s, l.pos + MAGIC_SIZE + 1, l.pos + MAGIC_SIZE + 4))

\* the locals of read_from after a pass that read a record; `declared` is
\* the sum over the frames read of the length prefix plus BODY_LEN
BinLoopPush(s, l) ==
    LET r == read_executor(s, l.pos + MAGIC_SIZE, l.total_read_bytes).val IN
    [pos |-> r.pos,
     records |-> Append(l.records, r.record),
     total_read_bytes |-> l.total_read_bytes + r.bytes,
     current_bytes |-> r.bytes,
     declared |-> l.declared + 4 + BinDeclaredLen(s, l),
     allocated |-> l.allocated
                   \o read_executor_allocs(s, l.pos + MAGIC_SIZE, l.total_read_bytes)]

RECURSIVE BinReadLoop(_, _)
BinReadLoop(s, l) ==
    IF BinLoopCase(s, l) = "record" THEN BinReadLoop(s, BinLoopPush(s, l))
    ELSE BinLoopReturn(s, l)

\* YPBankBinFormat::read_from
BinReadFrom(s) == BinReadLoop(s, BinReadInit)

---------------------------------------------------------------------------
(* Strings (std) and line utilities (format/tools.rs) *)

\* char::is_whitespace, on the model's alphabet
IsWs(c) == c \in {" ", "\t", "\n", "\r"}

\* the least and the greatest member of a non-empty set of indices
first_index(S) == CHOOSE k \in S : \A j \in S : k <= j

last_index(S) == CHOOSE k \in S : \A j \in S : j <= k

\* member number j (from 1) of a set of indices, in increasing order
nth_index(S, j) == CHOOSE k \in S : Cardinality({m \in S : m < k}) = j - 1

\* str::trim
trim(str) ==
    LET keep == {k \in 1..Len(str) : ~IsWs(str[k])} IN
    IF keep = {} THEN <<>>
    ELSE SubSeq(str, first_index(keep), last_index(keep))

\* position of the first c in str at or after index i, 0 when there is none
find_from(str, c, i) ==
    LET at == {k \in i..Len(str) : str[k] = c} IN
    IF at = {} THEN 0 ELSE first_index(at)

\* a line of str::lines without its line break: a trailing "\r" is dropped
strip_cr(line) ==
    IF line # <<>> /\ line[Len(line)] = "\r"
    THEN SubSeq(line, 1, Len(line) - 1)
    ELSE line

\* the lines of str, given the set nl of the positions of its line feeds
lines_between(str, nl) ==
    LET n == Cardinality(nl)
        brk(j) == IF j = 0 THEN 0
                  ELSE IF j > n THEN Len(str) + 1
                  ELSE nth_index(nl, j)
        count == IF str # <<>> /\ str[Len(str)] # "\n" THEN n + 1 ELSE n
    IN  SubSeq([j \in 1..count |->
                   strip_cr(SubSeq(str, brk(j - 1) + 1, brk(j) - 1))], 1, count)

\* str::lines: the pieces between line feeds; a last piece that is empty
\* (the text ends with a line feed, or is empty) is not a line
lines(str) == lines_between(str, {k \in 1..Len(str) : str[k] = "\n"})

Digits == <<"0", "1", "2", "3", "4", "5", "6", "7", "8", "9">>

RECURSIVE to_string(_)
\* u64::to_string
to_string(n) ==
    IF n < 10 THEN <<Digits[n + 1]>>
    ELSE Append(to_string(n \div 10), Digits[(n % 10) + 1])

IsDigit(c) == \E i \in 1..10 : Digits[i] = c

\* the value of a digit string, capped above U64_MAX once it overflows
RECURSIVE digits_value(_, _)
digits_value(str, acc) ==
    IF str = <<>> THEN acc
    ELSE LET v == acc * 10 + (CHOOSE i \in 1..10 : Digits[i] = Head(str))
                 - 1 IN
         IF v > U64_MAX THEN U64_MAX + 1 ELSE digits_value(Tail(str), v)

\* str::parse::<u64>: an optional "+", then one or more digits, no overflow
parse_u64(str) ==
    LET d == IF str # <<>> /\ Head(str) = "+" THEN Tail(str) ELSE str IN
    IF d = <<>> \/ \E i \in 1..Len(d) : ~IsDigit(d[i]) THEN None
    ELSE IF digits_value(d, 0) > U64_MAX THEN None
    ELSE Some(digits_value(d, 0))

LowerCase ==
    <<"a", "b", "c", "d", "e", "f", "g", "h", "i", "j", "k", "l", "m", "n",
      "o", "p", "q", "r", "s", "t", "u", "v", "w", "x", "y", "z">>

UpperCase ==
    <<"A", "B", "C", "D", "E", "F", "G", "H", "I", "J", "K", "L", "M", "N",
      "O", "P", "Q", "R", "S", "T", "U", "V", "W", "X", "Y", "Z">>

\* str::to_uppercase
to_uppercase(str) ==
    [i \in 1..Len(str) |->
        IF \E k \in 1..26 : LowerCase[k] = str[i]
        THEN UpperCase[CHOOSE k \in 1..26 : LowerCase[k] = str[i]]
        ELSE str[i]]

\* impl Display for TxType / TxStatus: the variant's name in upper case
TxDisplay(t) ==
    CASE t = "Deposit" -> <<"D", "E", "P", "O", "S", "I", "T">>
      [] t = "Transfer" -> <<"T", "R", "A", "N", "S", "F", "E", "R">>
      [] t = "Withdrawal" -> <<"W", "I", "T", "H", "D", "R", "A", "W", "A", "L">>
      [] t = "Success" -> <<"S", "U", "C", "C", "E", "S", "S">>
      [] t = "Failure" -> <<"F", "A", "I", "L", "U", "R", "E">>
      [] t = "Pending" -> <<"P", "E", "N", "D", "I", "N", "G">>

\* impl FromStr for TxType / TxStatus: the upper-cased text names a variant
TxFromStr(variants, str) ==
    IF \E t \in variants : TxDisplay(t) = to_uppercase(str)
    THEN Some(CHOOSE t \in variants : TxDisplay(t) = to_uppercase(str))
    ELSE None

\* <struct>::fields(): the field names in upper case
fields ==
    << <<"T", "X", "_", "I", "D">>,
       <<"T", "X", "_", "T", "Y", "P", "E">>,
       <<"F", "R", "O", "M", "_", "U", "S", "E", "R", "_", "I", "D">>,
       <<"T", "O", "_", "U", "S", "E", "R", "_", "I", "D">>,
       <<"A", "M", "O", "U", "N", "T">>,
       <<"T", "I", "M", "E", "S", "T", "A", "M", "P">>,
       <<"S", "T", "A", "T", "U", "S">>,
       <<"D", "E", "S", "C", "R", "I", "P", "T", "I", "O", "N">> >>

\* faulty variant of has_field_from_str: every key is taken for a field
has_field_from_str_Any(field) == TRUE

\* <struct>::has_field_from_str
has_field_from_str(field) == \E i \in 1..Len(fields) : fields[i] = to_uppercase(field)

RECURSIVE join(_, _)
\* [String]::join(sep)
join(strs, sep) ==
    IF strs = <<>> THEN <<>>
    ELSE IF Len(strs) = 1 THEN strs[1]
    ELSE strs[1] \o sep \o join(Tail(strs), sep)

RECURSIVE replace_quote_pairs(_)
\* str::replace("\"\"", "\""): every non-overlapping pair, left to right
replace_quote_pairs(str) ==
    IF Len(str) < 2 THEN str
    ELSE IF str[1] = "\"" /\ str[2] = "\""
         THEN <<"\"">> \o replace_quote_pairs(SubSeq(str, 3, Len(str)))
         ELSE <<str[1]>> \o replace_quote_pairs(Tail(str))

RECURSIVE double_quotes(_)
\* str::replace('"', "\"\"")
double_quotes(str) ==
    IF str = <<>> THEN <<>>
    ELSE IF Head(str) = "\"" THEN <<"\"", "\"">> \o double_quotes(Tail(str))
    ELSE <<Head(str)>> \o double_quotes(Tail(str))

\* LineUtils::escaped_quote
escaped_quote(str) == double_quotes(str)

\* faulty variant of clean_quote_range: the length of the line is not tested
clean_quote_range_NoLenTest(line) ==
    IF line # <<>> /\ line[1] = "\"" /\ line[Len(line)] = "\""
    THEN Some([start |-> 1, end |-> Len(line) - 1])
    ELSE None

\* clean_quote: the byte range [start..end] of the slice taken when the
\* line starts and ends with a quote and has at least 2 bytes, None when
\* no slice is taken
clean_quote_range(line) ==
    IF Len(line) >= 2 /\ line[1] = "\"" /\ line[Len(line)] = "\""
    THEN Some([start |-> 1, end |-> Len(line) - 1])
    ELSE None

\* LineUtils::clean_quote
clean_quote(line) ==
    IF clean_quote_range(line) # None
    THEN replace_quote_pairs(SubSeq(line, clean_quote_range(line)[1].start + 1,
                                    clean_quote_range(line)[1].end))
    ELSE replace_quote_pairs(line)

\* LineUtils::is_empty_line
is_empty_line(line) == trim(line) = <<>>

\* LineUtils::is_hash_marker
is_hash_marker(line) == trim(line) # <<>> /\ Head(trim(line)) = "#"

\* faulty variant of is_eq: the comparison ignores the case of the letters
is_eq_IgnoreCase(line, other) ==
    to_uppercase(trim(line)) = to_uppercase(trim(other))

\* LineUtils::is_eq
is_eq(line, other) == trim(line) = trim(other)

\* LineUtils::split_into_key_value
split_into_key_value(line) ==
    LET n == find_from(line, ":", 1) IN
    IF n = 0 THEN None
    ELSE LET key == to_uppercase(trim(SubSeq(line, 1, n - 1)))
             value == trim(SubSeq(line, n + 1, Len(line)))
         IN  IF key = <<>> \/ value = <<>> THEN None
             ELSE Some([key |-> key, value |-> clean_quote(value)])

RECURSIVE csv_quoted(_, _, _)
\* split_csv_line, the inner loop: the quoted field read from index i on
csv_quoted(line, i, buffer) ==
    IF i > Len(line) THEN buffer
    ELSE IF line[i] = "\""
         THEN IF i < Len(line) /\ line[i + 1] = "\""
              THEN csv_quoted(line, i + 2, Append(buffer, "\""))
              ELSE buffer
    ELSE IF line[i] \in {"\t", "\n"} THEN csv_quoted(line, i + 1, buffer)
    ELSE csv_quoted(line, i + 1, Append(buffer, line[i]))

\* split_csv_line, the outer loop: it handles the characters before index
\* stop, where each comma (their positions are commas) closes a field and
\* buffer is what follows the last comma; q is the position of the first
\* quote, 0 when there is none
csv_fields(line, q, stop, commas) ==
    LET n == Cardinality(commas)
        cut(j) == IF j = 0 THEN 0
                  ELSE IF j > n THEN stop
                  ELSE nth_index(commas, j)
        flds == [j \in 1..n |-> trim(SubSeq(line, cut(j - 1) + 1, cut(j) - 1))]
        buffer == SubSeq(line, cut(n) + 1, stop - 1)
    IN  IF q # 0
        THEN IF trim(buffer) # <<>> THEN None
             ELSE Some(Append(flds, trim(csv_quoted(line, q + 1, buffer))))
        ELSE IF trim(buffer) # <<>>
             THEN IF n + 1 < 2 THEN None ELSE Some(Append(flds, trim(buffer)))
             ELSE IF n < 2 THEN None ELSE Some(SubSeq(flds, 1, n))

\* split_csv_line, from the position q of the first quote
csv_split(line, q) ==
    IF q = 0
    THEN csv_fields(line, q, Len(line) + 1,
                    {k \in 1..Len(line) : line[k] = ","})
    ELSE csv_fields(line, q, q, {k \in 1..(q - 1) : line[k] = ","})

\* LineUtils::split_csv_line
split_csv_line(line) == csv_split(line, find_from(line, "\"", 1))

---------------------------------------------------------------------------
(* Records built from a field map (models.rs, new_from_map) *)

\* HashMap::contains_key on a map kept as a sequence of [key, value]
map_contains(m, key) == \E i \in 1..Len(m) : m[i].key = key

\* HashMap::get of a key the map holds
map_get(m, key) == m[CHOOSE i \in 1..Len(m) : m[i].key = key].value

\* faulty variant of get_field_in_map: field number i is taken from entry
\* number i of the map, whatever its key
get_field_in_map_ByPosition(m, i) ==
    IF i > Len(m) THEN None
    ELSE CASE i = 2 -> TxFromStr(TxTypes, m[i].value)
           [] i = 7 -> TxFromStr(TxStatuses, m[i].value)
           [] i = 8 -> Some(m[i].value)
           [] OTHER -> parse_u64(m[i].value)

\* get_field_in_map!: the parsed value of field number i, None when the key
\* is absent or its text does not parse as the field's type
get_field_in_map(m, i) ==
    IF ~map_contains(m, fields[i]) THEN None
    ELSE LET v == map_get(m, fields[i]) IN
         CASE i = 2 -> TxFromStr(TxTypes, v)
           [] i = 7 -> TxFromStr(TxStatuses, v)
           [] i = 8 -> Some(v)
           [] OTHER -> parse_u64(v)

\* ParseError::IncorrectField { key }
IncorrectField(key) ==
    [kind |-> "IncorrectField", val |-> key, line |-> 0, actual |-> 0, limit |-> 0]

\* YPBankCsvFormat::new_from_map / YPBankTextFormat::new_from_map
new_from_map(m) ==
    IF \E i \in 1..8 : get_field_in_map(m, i) = None
    THEN IncorrectField(fields[CHOOSE i \in 1..8 :
                                  /\ get_field_in_map(m, i) = None
                                  /\ \A j \in 1..(i - 1) : get_field_in_map(m, j) # None])
    ELSE Ok([i \in 1..8 |-> get_field_in_map(m, i)[1]])

\* the record a new_from_map result stands for
RecordOf(vals) ==
    [tx_id |-> vals[1], tx_type |-> vals[2], from_user_id |-> vals[3],
     to_user_id |-> vals[4], amount |-> vals[5], timestamp |-> vals[6],
     status |-> vals[7], description |-> vals[8]]

---------------------------------------------------------------------------
(* CSV codec (format/csv.rs) *)

\* YPBankCsvFormat::make_title
csv_make_title == join(fields, <<",">>)

\* YPBankCsvFormat::makeup_records
csv_makeup_records(r) ==
    join(<<to_string(r.tx_id), TxDisplay(r.tx_type), to_string(r.from_user_id),
           to_string(r.to_user_id), to_string(r.amount), to_string(r.timestamp),
           TxDisplay(r.status),
           <<"\"">> \o double_quotes(r.description) \o <<"\"">> >>, <<",">>)

RECURSIVE csv_write_records(_)
csv_write_records(records) ==
    IF records = <<>> THEN <<>>
    ELSE csv_makeup_records(Head(records)) \o <<"\n">>
         \o csv_write_records(Tail(records))

\* YPBankCsvFormat::write_to on a writer that accepts every byte
CsvWriteTo(records) == csv_make_title \o <<"\n">> \o csv_write_records(records)

\* the record of a new_from_map result, or its error
record_from_map(r) == IF IsErr(r) THEN r ELSE Ok(RecordOf(r.val))

\* parse_data_line, from the result data of split_csv_line on
parse_data(title_data, data, count_line) ==
    IF data = None THEN Err("ParseError", count_line)
    ELSE IF Len(data[1]) # Len(title_data) THEN Err("ParseError", count_line)
    ELSE record_from_map(
             new_from_map([i \in 1..Len(title_data) |->
                              [key |-> title_data[i], value |-> data[1][i]]]))

\* faulty variant of parse_data_line: the line number is not reported
parse_data_line_NoCount(title_data, line, count_line) ==
    parse_data(title_data, split_csv_line(line), 0)

\* YPBankCsvFormat::parse_data_line
parse_data_line(title_data, line, count_line) ==
    parse_data(title_data, split_csv_line(line), count_line)

RECURSIVE csv_collect(_, _, _, _), csv_push(_, _, _, _, _)
\* lines.enumerate().map(parse_data_line).collect(): the first error, or
\* every record in line order; ls[i] is the next line, acc the records so far
csv_collect(title_data, ls, i, acc) ==
    IF i > Len(ls) THEN Ok(acc)
    ELSE csv_push(title_data, ls, i, acc, parse_data_line(title_data, ls[i], i - 1))

\* collect(), on the result r of parse_data_line for line ls[i]
csv_push(title_data, ls, i, acc, r) ==
    IF IsErr(r) THEN r
    ELSE csv_collect(title_data, ls, i + 1, Append(acc, r.val))

\* YPBankCsvFormat::read_executor, on the lines of the buffer
csv_read_lines(ls) ==
    IF ls = <<>> THEN Err("ParseError", 0)
    ELSE IF ~is_eq(ls[1], csv_make_title) THEN Err("ParseError", 0)
    ELSE IF split_csv_line(ls[1]) = None THEN Err("ParseError", 0)
    ELSE csv_collect(split_csv_line(ls[1])[1], ls, 2, <<>>)

\* YPBankCsvFormat::read_executor
csv_read_executor(buffer) == csv_read_lines(lines(buffer))

---------------------------------------------------------------------------
(* Text codec (format/text.rs) *)

\* YPBankTextFormat::make_title; the record number is tx_id % 10^15, which
\* is tx_id for every tx_id of the scaled width
text_make_title(r) ==
    <<"#", " ", "R", "e", "c", "o", "r", "d", " ">> \o to_string(r.tx_id)
    \o <<" ", "(">> \o TxDisplay(r.tx_type) \o <<")">>

\* one line of impl Display for YPBankTextFormat
text_field_line(i, value) == fields[i] \o <<":", " ">> \o value \o <<"\n">>

\* impl Display for YPBankTextFormat
text_display(r) ==
    text_field_line(1, to_string(r.tx_id))
    \o text_field_line(2, TxDisplay(r.tx_type))
    \o text_field_line(3, to_string(r.from_user_id))
    \o text_field_line(4, to_string(r.to_user_id))
    \o text_field_line(5, to_string(r.amount))
    \o text_field_line(6, to_string(r.timestamp))
    \o text_field_line(7, TxDisplay(r.status))
    \o text_field_line(8, <<"\"">> \o r.description \o <<"\"">>)

\* YPBankTextFormat::makeup_records
text_makeup_records(r) ==
    text_make_title(r) \o <<"\n">>
    \o text_display([r EXCEPT !.description = escaped_quote(r.description)])

RECURSIVE TextWriteTo(_)
\* YPBankTextFormat::write_to on a writer that accepts every byte
TextWriteTo(records) ==
    IF records = <<>> THEN <<>>
    ELSE text_makeup_records(Head(records)) \o <<"\n">>
         \o TextWriteTo(Tail(records))

\* index after the longest run of characters satisfying a class, from i
RECURSIVE skip_ws(_, _)
skip_ws(str, i) ==
    IF i <= Len(str) /\ IsWs(str[i]) THEN skip_ws(str, i + 1) ELSE i

RECURSIVE skip_digits(_, _)
skip_digits(str, i) ==
    IF i <= Len(str) /\ IsDigit(str[i]) THEN skip_digits(str, i + 1) ELSE i

\* the capture tx_type of ^#\s*Record\s+\d+\s*\((?P<tx_type>[^)]+)\)$ on
\* line, None when the line does not match
title_captures(line) ==
    IF line = <<>> \/ line[1] # "#" THEN None
    ELSE LET a == skip_ws(line, 2) IN
         IF a + 5 > Len(line)
            \/ SubSeq(line, a, a + 5) # <<"R", "e", "c", "o", "r", "d">>
         THEN None
         ELSE LET b == skip_ws(line, a + 6) IN
              IF b = a + 6 THEN None
              ELSE LET c == skip_digits(line, b) IN
                   IF c = b THEN None
                   ELSE LET d == skip_ws(line, c) IN
                        IF d > Len(line) \/ line[d] # "(" THEN None
                        ELSE LET e == find_from(line, ")", d + 1) IN
                             IF e = 0 \/ e = d + 1 \/ e # Len(line) THEN None
                             ELSE Some(SubSeq(line, d + 1, e - 1))

\* YPBankTextFormat::parse_title
parse_title(line, count_line) ==
    IF title_captures(line) = None THEN Err("ParseError", count_line)
    ELSE Ok(title_captures(line)[1])

RECURSIVE parse_block_lines(_, _, _, _), parse_block_line(_, _, _, _, _)
\* parse_block, the loop over block[1..]: count is the index in the block,
\* m the map filled so far
parse_block_lines(block, count, first_line, m) ==
    IF count + 1 > Len(block) THEN Ok(m)
    ELSE parse_block_line(block, count, first_line, m,
                          split_into_key_value(block[count + 1]))

\* parse_block, one iteration: kv is the result of split_into_key_value
parse_block_line(block, count, first_line, m, kv) ==
    IF kv = None THEN Err("ParseError", first_line + count)
    ELSE IF ~has_field_from_str(kv[1].key)
         THEN Err("ParseError", first_line + count)
    ELSE IF map_contains(m, kv[1].key)
         THEN Err("ParseError", first_line + count)
    ELSE parse_block_lines(block, count + 1, first_line, Append(m, kv[1]))

\* parse_block, from the map of the block's fields on
parse_block_map(m) ==
    IF IsErr(m) THEN m ELSE record_from_map(new_from_map(m.val))

\* YPBankTextFormat::parse_block; end_line - block.len() below zero is an
\* arithmetic overflow of usize, block[1..] of an empty block a slice out of
\* range
parse_block(block, end_line) ==
    IF end_line - Len(block) < 0 \/ Len(block) < 1 THEN Err("panic", 0)
    ELSE parse_block_map(parse_block_lines(block, 1, end_line - Len(block), <<>>))

\* the locals of YPBankTextFormat::read_executor
TextLocals(transaction, block_buffer) ==
    [transaction |-> transaction, block_buffer |-> block_buffer]

\* read_executor, the arm (true, true): title is the result of parse_title
text_open_block(transaction, title) ==
    IF IsErr(title) THEN title
    ELSE Ok(TextLocals(transaction, <<title.val>>))

\* read_executor, the arm (false, true) and the code after the loop:
\* block_data is the result of parse_block
text_close_block(transaction, block_data) ==
    IF IsErr(block_data) THEN block_data
    ELSE Ok(Append(transaction, block_data.val))

\* read_executor, the arm (false, true): the block is closed, then the next
\* one is opened
text_next_block(closed, line, i) ==
    IF IsErr(closed) THEN closed
    ELSE text_open_block(closed.val, parse_title(line, i - 1))

\* YPBankTextFormat::read_executor, one iteration of the loop: line is line
\* number i of the input (count is i - 1) and st holds the locals
text_step(st, line, i) ==
    IF is_empty_line(line) THEN Ok(st)
    ELSE IF st.block_buffer = <<>> /\ is_hash_marker(line)
         THEN text_open_block(st.transaction, parse_title(line, i - 1))
    ELSE IF is_hash_marker(line)
         THEN text_next_block(
                  text_close_block(st.transaction,
                                   parse_block(st.block_buffer, i - 1)),
                  line, i)
    ELSE IF st.block_buffer # <<>>
         THEN Ok(TextLocals(st.transaction, Append(st.block_buffer, line)))
    ELSE Err("ParseError", i)

RECURSIVE text_loop(_, _, _)
\* YPBankTextFormat::read_executor, the loop from line number i on; r is the
\* outcome of the iterations before it
text_loop(ls, i, r) ==
    IF i > Len(ls) \/ IsErr(r) THEN r
    ELSE text_loop(ls, i + 1, text_step(r.val, ls[i], i))

\* read_executor, the code after the loop: r is the outcome of the loop
\* and count is buffer.lines().count()
text_after_loop(r, count) ==
    IF IsErr(r) THEN r
    ELSE IF r.val.block_buffer = <<>> THEN Ok(r.val.transaction)
    ELSE text_close_block(r.val.transaction,
                          parse_block(r.val.block_buffer, count))

\* YPBankTextFormat::read_executor, on the lines of the buffer
text_read_lines(ls) ==
    text_after_loop(text_loop(ls, 1, Ok(TextLocals(<<>>, <<>>))), Len(ls))

\* YPBankTextFormat::read_executor
text_read_executor(buffer) == text_read_lines(lines(buffer))

---------------------------------------------------------------------------
(* The shared reader of CSV and Text (traits.rs) and the wrappers (lib.rs) *)

\* faulty variant of non_empty: an empty list is returned as it is
non_empty_AllowEmpty(transaction) == transaction

\* YPBankIO::read_from, from the result of read_executor on
non_empty(transaction) ==
    IF IsErr(transaction) THEN transaction
    ELSE IF transaction.val = <<>> THEN Err("EmptyData", 0)
    ELSE transaction

\* YPBankIO::read_from, on a reader that delivers every byte of buffer
TextualReadFrom(f, buffer) ==
    IF Len(buffer) > MAX_SIZE_CSV_TXT_BYTES
    THEN lim_exceed(Len(buffer), MAX_SIZE_CSV_TXT_BYTES)
    ELSE non_empty(IF f = "csv" THEN csv_read_executor(buffer)
                   ELSE text_read_executor(buffer))

\* read_csv / read_text / read_bin; a binary file is a sequence of bytes, a
\* CSV or Text file the characters its bytes decode to
ReadFrom(f, s) == IF f = "bin" THEN BinReadFrom(s) ELSE TextualReadFrom(f, s)

\* write_csv / write_text / write_bin
WriteTo(f, records) ==
    CASE f = "bin" -> BinWriteTo(records)
      [] f = "csv" -> CsvWriteTo(records)
      [] f = "txt" -> TextWriteTo(records)

\* collect::<Result<Vec<_>, _>>() on a first result h and the collected
\* rest t: the first error in order
collect_push(h, t) ==
    IF IsErr(h) THEN h
    ELSE IF IsErr(t) THEN t
    ELSE Ok(<<h.val>> \o t.val)

RECURSIVE try_collect(_, _, _)
\* iter.map(op).collect::<Result<Vec<_>, _>>(): the first error, or every
\* value in order; kind says which conversion is mapped
try_collect(kind, f, items) ==
    IF items = <<>> THEN Ok(<<>>)
    ELSE collect_push(IF kind = "to" THEN ToTransaction(f, Head(items))
                      ELSE FromTransaction(f, Head(items)),
                      try_collect(kind, f, Tail(items)))

\* Transaction::convert_to_transaction
convert_to_transaction(f, records) == try_collect("to", f, records)

\* to_transaction, from the result r of the format's reader on
convert_read(f, r) ==
    IF IsErr(r) THEN r ELSE convert_to_transaction(f, r.val)

\* YPFormatSupported::to_transaction
to_transaction(f, s) == convert_read(f, ReadFrom(f, s))

\* convert_transactions, from the converted records on: Ok carries the
\* bytes written
write_transformed(f, transformed) ==
    IF IsErr(transformed) THEN transformed
    ELSE Ok(WriteTo(f, transformed.val))

\* YPFormatSupported::convert_transactions
convert_transactions(f, transaction) ==
    write_transformed(f, try_collect("from", f, transaction))

---------------------------------------------------------------------------
(* Inputs of the conversion layer *)

\* CSV / Text records: every u64 amount
TextRecords ==
    [tx_id : {1}, tx_type : TxTypes, from_user_id : {0, 1}, to_user_id : {0, 2},
     amount : 0..U64_MAX, timestamp : {3}, status : {"Success"},
     description : {<<>>, <<"a">>}]

\* Binary records: every i64 amount
BinRecords ==
    {[tx_id |-> 1, tx_type |-> t, from_user_id |-> 1, to_user_id |-> 2,
      amount |-> a, timestamp |-> 3, status |-> s,
      desc_len |-> IF d = None THEN 0 ELSE Len(d[1]), description |-> d] :
        t \in TxTypes, a \in I64_MIN..I64_MAX, s \in {"Success", "Pending"},
        d \in {None, Some(<<"a">>)}}

ConvInputs(f) == IF f = "bin" THEN BinRecords ELSE TextRecords

\* the records put before and after the record under conversion when a
\* whole list is converted: amounts around i64::MAX
ConvNeighbours(f) ==
    {r \in ConvInputs(f) :
        /\ r.tx_type = "Deposit" /\ r.status = "Success"
        /\ r.to_user_id = 2 /\ r.description # <<>>
        /\ r.from_user_id = 1
        /\ r.amount \in {0, I64_MAX, I64_MAX + 1}}

---------------------------------------------------------------------------
(* Specification of the conversion layer: a per-format record is converted *)
(* to the canonical model and back.                                        *)

InitConv ==
    /\ pc = "convert"
    /\ fmt \in Formats
    /\ \E r \in ConvInputs(fmt) : recs = <<r>>
    /\ conv = NoResult
    /\ back = NoResult
    /\ stream = <<>> /\ damage = [kind |-> "none", unit |-> 0]
    /\ rd = BinReadInit /\ result = NoResult
    /\ txs = <<>>
    /\ files = [f \in Formats |-> NoResult]
    /\ parsed = [f \in Formats |-> NoResult]

\* YPBankTransaction::try_from(record)
ConvToTransaction ==
    /\ pc = "convert"
    /\ conv' = ToTransaction(fmt, recs[1])
    /\ pc' = IF IsOk(conv') THEN "converted" ELSE "failed"
    /\ UNCHANGED <<fmt, recs, stream, damage, rd, result, txs, back, files, parsed>>

\* <per-format record>::try_from(transaction)
ConvFromTransaction ==
    /\ pc = "converted"
    /\ back' = FromTransaction(fmt, conv.val)
    /\ pc' = "back"
    /\ UNCHANGED <<fmt, recs, stream, damage, rd, result, txs, conv, files, parsed>>

\* records.convert_to_transaction() on a list that holds the record
ConvertList ==
    /\ pc = "convert"
    /\ \E before, after \in {<<>>} \cup {<<r>> : r \in ConvNeighbours(fmt)} :
          recs' = before \o recs \o after
    /\ result' = convert_to_transaction(fmt, recs')
    /\ pc' = "collected"
    /\ UNCHANGED <<fmt, stream, damage, rd, txs, conv, back, files, parsed>>

NextConv == ConvToTransaction \/ ConvFromTransaction \/ ConvertList

SpecConv == InitConv /\ [][NextConv]_vars

---------------------------------------------------------------------------
(* Specification of the file pipeline: a list of per-format records is      *)
(* written to a file, the file is stored as written or damaged in one       *)
(* unit (a frame, a data line, a block), and the file is read back.         *)

\* records handed to the binary writer
BinFileRecords ==
    {[tx_id |-> 1, tx_type |-> "Deposit", from_user_id |-> 5, to_user_id |-> 2,
      amount |-> 3, timestamp |-> 4, status |-> "Success",
      desc_len |-> 1, description |-> Some(<<"a">>)],
     [tx_id |-> 2, tx_type |-> "Withdrawal", from_user_id |-> 1, to_user_id |-> 6,
      amount |-> -3, timestamp |-> 4, status |-> "Failure",
      desc_len |-> 0, description |-> None],
     [tx_id |-> 3, tx_type |-> "Transfer", from_user_id |-> 1, to_user_id |-> 2,
      amount |-> -1, timestamp |-> 4, status |-> "Pending",
      desc_len |-> 2, description |-> Some(<<"a", "b">>)],
     [tx_id |-> 4, tx_type |-> "Transfer", from_user_id |-> 1, to_user_id |-> 2,
      amount |-> 0, timestamp |-> 4, status |-> "Success",
      desc_len |-> 0, description |-> Some(<<>>)]}

\* records handed to the CSV and Text writers
TextFileRecords ==
    {[tx_id |-> 1, tx_type |-> "Deposit", from_user_id |-> 0, to_user_id |-> 2,
      amount |-> 3, timestamp |-> 4, status |-> "Success",
      description |-> <<"a">>],
     [tx_id |-> 2, tx_type |-> "Withdrawal", from_user_id |-> 1, to_user_id |-> 0,
      amount |-> 3, timestamp |-> 4, status |-> "Failure",
      description |-> <<>>],
     [tx_id |-> 3, tx_type |-> "Transfer", from_user_id |-> 1, to_user_id |-> 2,
      amount |-> 1, timestamp |-> 4, status |-> "Pending",
      description |-> <<"a", "\"", ",", "b">>]}

FileRecords(f) == IF f = "bin" THEN BinFileRecords ELSE TextFileRecords

\* the record lists of at most MaxRecs records
RecLists(f) == UNION {[1..n -> FileRecords(f)] : n \in 0..MaxRecs}

\* offset of the frame that follows the frame at offset p
next_frame(s, p) ==
    p + MAGIC_SIZE + 4 + from_be_bytes(SubSeq(s, p + MAGIC_SIZE + 1, p + MAGIC_SIZE + 4))

RECURSIVE frame_start(_, _)
\* offset of frame number i of a binary file, found through the length
\* prefixes of the frames before it
frame_start(s, i) ==
    IF i = 1 THEN 0 ELSE next_frame(s, frame_start(s, i - 1))

\* s with the bytes after offset at overwritten
set_bytes(s, at, bytes) ==
    [i \in 1..Len(s) |->
        IF i > at /\ i <= at + Len(bytes) THEN bytes[i - at] ELSE s[i]]

\* the sum of length prefix plus BODY_LEN over the frames before frame i
declared_before(s, i) == frame_start(s, i) - (i - 1) * MAGIC_SIZE

BinDamageKinds ==
    {"magic", "tx_type", "status", "size_over", "size_edge", "desc_len",
     "desc_len_over", "utf8",
     "cut1", "cut2", "cut3", "cut6", "cut20"}

\* the bytes of its frame a cut leaves in the file
CutKeep(kind) ==
    CASE kind = "cut1" -> 1 [] kind = "cut2" -> 2 [] kind = "cut3" -> 3
      [] kind = "cut6" -> 6 [] kind = "cut20" -> 20

\* a binary file damaged in frame number unit
BinDamaged(s, kind, unit) ==
    LET p == frame_start(s, unit) IN
    CASE kind = "magic" -> set_bytes(s, p, <<0>>)
      [] kind = "tx_type" -> set_bytes(s, p + 16, <<99>>)
      [] kind = "status" -> set_bytes(s, p + 49, <<99>>)
      [] kind = "size_over" ->
            set_bytes(s, p + MAGIC_SIZE,
                      to_be_bytes(MAX_SIZE_BIN_BYTES - 3 - declared_before(s, unit), 4))
      [] kind = "size_edge" ->
            set_bytes(s, p + MAGIC_SIZE,
                      to_be_bytes(MAX_SIZE_BIN_BYTES - 4 - declared_before(s, unit), 4))
      [] kind = "desc_len" -> set_bytes(s, p + 50, <<0, 0, 0, 200>>)
      [] kind = "desc_len_over" -> set_bytes(s, p + 50, <<1, 0, 0, 0>>)
      [] kind = "utf8" -> set_bytes(s, p + 54, <<255>>)
      [] OTHER -> SubSeq(s, 1, p + CutKeep(kind))

\* s with its line number n (line feed excluded) replaced; every line of
\* s ends with a line feed
replace_line(s, n, new) ==
    LET nl == {k \in 1..Len(s) : s[k] = "\n"}
        from == IF n = 1 THEN 1 ELSE nth_index(nl, n - 1) + 1
        to == nth_index(nl, n)
    IN  SubSeq(s, 1, from - 1) \o new \o SubSeq(s, to, Len(s))

CsvDamageKinds == {"short", "long", "letters", "blank"}

\* a CSV file damaged in data line number unit
CsvDamaged(s, kind, unit) ==
    replace_line(s, unit + 1,
        CASE kind = "short" -> <<"1", ",", "D", "E", "P", "O", "S", "I", "T">>
          [] kind = "long" ->
                <<"1", ",", "D", "E", "P", "O", "S", "I", "T", ",", "0", ",", "2",
                  ",", "3", ",", "4", ",", "S", "U", "C", "C", "E", "S", "S", ",",
                  "9", ",", "\"", "a", "\"">>
          [] kind = "letters" ->
                <<"x", ",", "D", "E", "P", "O", "S", "I", "T", ",", "0", ",", "2",
                  ",", "3", ",", "4", ",", "S", "U", "C", "C", "E", "S", "S", ",",
                  "\"", "a", "\"">>
          [] kind = "blank" -> <<>>)

TextDamageKinds == {"title", "key", "dup", "novalue", "letters", "blank"}

\* lines a written block takes: the title, eight fields, one empty line
TEXT_BLOCK_LINES == 10

\* a Text file damaged in block number unit: in its title, or in the line
\* of TX_ID that follows it
TextDamaged(s, kind, unit) ==
    LET title == (unit - 1) * TEXT_BLOCK_LINES + 1 IN
    CASE kind = "title" -> replace_line(s, title, <<"#", " ", "R", "e", "c">>)
      [] kind = "key" -> replace_line(s, title + 1, <<"F", "O", "O", ":", " ", "1">>)
      [] kind = "dup" ->
            replace_line(s, title + 1,
                         fields[2] \o <<":", " ">> \o TxDisplay("Deposit"))
      [] kind = "novalue" -> replace_line(s, title + 1, fields[1] \o <<":">>)
      [] kind = "letters" -> replace_line(s, title + 1, fields[1] \o <<":", " ", "x">>)
      [] kind = "blank" -> replace_line(s, title + 1, <<>>)

DamageKinds(f) ==
    CASE f = "bin" -> BinDamageKinds
      [] f = "csv" -> CsvDamageKinds
      [] f = "txt" -> TextDamageKinds

Damaged(f, s, kind, unit) ==
    CASE f = "bin" -> BinDamaged(s, kind, unit)
      [] f = "csv" -> CsvDamaged(s, kind, unit)
      [] f = "txt" -> TextDamaged(s, kind, unit)

NoDamage == [kind |-> "none", unit |-> 0]

Init ==
    /\ pc = "start"
    /\ fmt \in Formats
    /\ recs \in RecLists(fmt)
    /\ stream = <<>>
    /\ damage = NoDamage
    /\ rd = BinReadInit
    /\ result = NoResult
    /\ txs = <<>> /\ conv = NoResult /\ back = NoResult
    /\ files = [f \in Formats |-> NoResult]
    /\ parsed = [f \in Formats |-> NoResult]

\* write_csv / write_text / write_bin on the records in memory
Write ==
    /\ pc = "start"
    /\ stream' = WriteTo(fmt, recs)
    /\ pc' = "written"
    /\ UNCHANGED <<fmt, recs, damage, rd, result, txs, conv, back, files, parsed>>

\* the file reaches the reader as it was written
Store ==
    /\ pc = "written"
    /\ pc' = "stored"
    /\ UNCHANGED <<fmt, recs, stream, damage, rd, result, txs, conv, back, files, parsed>>

\* the file reaches the reader damaged in one unit
Damage ==
    /\ pc = "written"
    /\ \E unit \in 1..Len(recs), kind \in DamageKinds(fmt) :
          /\ (kind = "utf8") => recs[unit].description \notin {None, Some(<<>>)}
          /\ damage' = [kind |-> kind, unit |-> unit]
          /\ stream' = Damaged(fmt, stream, kind, unit)
    /\ pc' = "stored"
    /\ UNCHANGED <<fmt, recs, rd, result, txs, conv, back, files, parsed>>

\* read_from of the binary format, a pass of the loop that reads a record
BinReadRecord ==
    /\ pc = "stored" /\ fmt = "bin"
    /\ BinLoopCase(stream, rd) = "record"
    /\ rd' = BinLoopPush(stream, rd)
    /\ UNCHANGED <<pc, fmt, recs, stream, damage, result, txs, conv, back, files, parsed>>

\* read_from of the binary format, read_exact of the magic meets the end
BinReadEof ==
    /\ pc = "stored" /\ fmt = "bin"
    /\ BinLoopCase(stream, rd) = "eof"
    /\ result' = BinLoopReturn(stream, rd)
    /\ pc' = "done"
    /\ UNCHANGED <<fmt, recs, stream, damage, rd, txs, conv, back, files, parsed>>

\* read_from of the binary format, the magic differs from MAGIC
BinReadBadMagic ==
    /\ pc = "stored" /\ fmt = "bin"
    /\ BinLoopCase(stream, rd) = "magic"
    /\ result' = BinLoopReturn(stream, rd)
    /\ pc' = "done"
    /\ UNCHANGED <<fmt, recs, stream, damage, rd, txs, conv, back, files, parsed>>

\* read_from of the binary format, read_executor returns an error
BinReadError ==
    /\ pc = "stored" /\ fmt = "bin"
    /\ BinLoopCase(stream, rd) = "error"
    /\ result' = BinLoopReturn(stream, rd)
    /\ rd' = [rd EXCEPT !.allocated =
                  @ \o read_executor_allocs(stream, rd.pos + MAGIC_SIZE,
                                            rd.total_read_bytes)]
    /\ pc' = "done"
    /\ UNCHANGED <<fmt, recs, stream, damage, txs, conv, back, files, parsed>>

\* read_csv
CsvRead ==
    /\ pc = "stored" /\ fmt = "csv"
    /\ result' = TextualReadFrom("csv", stream)
    /\ pc' = "done"
    /\ UNCHANGED <<fmt, recs, stream, damage, rd, txs, conv, back, files, parsed>>

\* read_text
TextRead ==
    /\ pc = "stored" /\ fmt = "txt"
    /\ result' = TextualReadFrom("txt", stream)
    /\ pc' = "done"
    /\ UNCHANGED <<fmt, recs, stream, damage, rd, txs, conv, back, files, parsed>>

Next ==
    \/ Write \/ Store \/ Damage
    \/ BinReadRecord \/ BinReadEof \/ BinReadBadMagic \/ BinReadError
    \/ CsvRead \/ TextRead

Spec == Init /\ [][Next]_vars

---------------------------------------------------------------------------
(* Specification of the round trip: a list of canonical transactions is     *)
(* exported to a CSV or Text file and to a binary file, each file is        *)
(* imported again, and the comparer compares the two imports.               *)

\* descriptions of the canonical transactions exported
RoundDescriptions == {None, Some(<<>>), Some(<<"a">>)}

\* valid canonical transactions: a Deposit has amount >= 0 and no sender, a
\* Withdrawal amount <= 0 and no receiver, a Transfer amount <= 0
ValidTransactions ==
    {[tx_id |-> 1, tx_type |-> "Deposit", from_user_id |-> 0, to_user_id |-> 2,
      amount |-> I64_MAX, timestamp |-> 4, status |-> "Success",
      description |-> d] : d \in RoundDescriptions}
    \cup
    {[tx_id |-> 2, tx_type |-> "Withdrawal", from_user_id |-> 1, to_user_id |-> 0,
      amount |-> -1, timestamp |-> 4, status |-> "Failure",
      description |-> d] : d \in RoundDescriptions}
    \cup
    {[tx_id |-> 3, tx_type |-> "Transfer", from_user_id |-> 1, to_user_id |-> 2,
      amount |-> I64_MIN, timestamp |-> 4, status |-> "Pending",
      description |-> d] : d \in RoundDescriptions}

\* the non-empty lists of at most MaxTxs valid transactions
TxLists == UNION {[1..n -> ValidTransactions] : n \in 1..MaxTxs}

\* compare_sides (cli_comparer): the number of mismatched elements
compare_sides(left, right) ==
    LET length == IF Len(left) < Len(right) THEN Len(left) ELSE Len(right)
        len_different == IF Len(left) < Len(right) THEN Len(right) - Len(left)
                         ELSE Len(left) - Len(right)
    IN  Cardinality({i \in 1..length : left[i] # right[i]}) + len_different

\* execute_compare_task, from the two results of to_transaction on
collect_compare(left_side, right_side) ==
    IF IsErr(left_side) THEN left_side
    ELSE IF IsErr(right_side) THEN right_side
    ELSE Ok(compare_sides(left_side.val, right_side.val))

NoFiles == [f \in Formats |-> NoResult]

InitRound ==
    /\ pc = "round"
    /\ fmt \in {"csv", "txt"}
    /\ txs \in TxLists
    /\ files = NoFiles
    /\ parsed = NoFiles
    /\ result = NoResult
    /\ recs = <<>> /\ stream = <<>> /\ damage = NoDamage /\ rd = BinReadInit
    /\ conv = NoResult /\ back = NoResult

\* convert_transactions: the transactions are written to a file of format f
Export(f) ==
    /\ pc = "round"
    /\ files[f] = NoResult
    /\ files' = [files EXCEPT ![f] = convert_transactions(f, txs)]
    /\ UNCHANGED <<pc, fmt, recs, stream, damage, rd, result, txs, conv, back, parsed>>

\* to_transaction: the file of format f is read into transactions
Import(f) ==
    /\ pc = "round"
    /\ IsOk(files[f])
    /\ parsed[f] = NoResult
    /\ parsed' = [parsed EXCEPT ![f] = to_transaction(f, files[f].val)]
    /\ UNCHANGED <<pc, fmt, recs, stream, damage, rd, result, txs, conv, back, files>>

\* execute_compare_task on the CSV or Text file and the binary file
Compare ==
    /\ pc = "round"
    /\ IsOk(files[fmt]) /\ IsOk(files["bin"])
    /\ result' = collect_compare(to_transaction(fmt, files[fmt].val),
                                 to_transaction("bin", files["bin"].val))
    /\ pc' = "compared"
    /\ UNCHANGED <<fmt, recs, stream, damage, rd, txs, conv, back, files, parsed>>

NextRound ==
    \/ Export(fmt) \/ Export("bin")
    \/ Import(fmt) \/ Import("bin")
    \/ Compare

SpecRound == InitRound /\ [][NextRound]_vars

---------------------------------------------------------------------------
(* Specification of the writers on a writer that can fail.  In this        *)
(* specification damage is the fault of the underlying writer (kind "once": *)
(* its call number unit fails; "onward": every call from number unit on    *)
(* fails; the error kind is not Interrupted, which write_all retries), and *)
(* rd holds the position of write_to: the index pos of the next record (0  *)
(* is the CSV header), the number of calls made to the underlying writer,  *)
(* and whether one of them has failed.                                     *)

\* capacity of BufWriter::new
DEFAULT_BUF_SIZE == 8192

\* description lengths at which a binary body fills the BufWriter exactly,
\* overflows its spare capacity, and reaches its capacity
LongDescLens ==
    {DEFAULT_BUF_SIZE - 2 * MAGIC_SIZE - BIN_FIXED_LEN,
     DEFAULT_BUF_SIZE - 2 * MAGIC_SIZE - BIN_FIXED_LEN + 1,
     DEFAULT_BUF_SIZE - BIN_FIXED_LEN}

\* binary records with a long description
LongBinRecords ==
    {[tx_id |-> 1, tx_type |-> "Deposit", from_user_id |-> 0, to_user_id |-> 2,
      amount |-> 3, timestamp |-> 4, status |-> "Success",
      desc_len |-> n, description |-> Some([i \in 1..n |-> "a"])] :
        n \in LongDescLens}

\* the record lists handed to the writers
WriteRecLists(f) ==
    RecLists(f) \cup (IF f = "bin" THEN {<<r>> : r \in LongBinRecords} ELSE {})

\* most calls a writer makes to the underlying writer
MaxWriteCalls == 2 * (MaxRecs + 1)

\* the faults of the underlying writer
WriterFaults ==
    {NoDamage} \cup [kind : {"once", "onward"}, unit : 1..MaxWriteCalls]

\* whether call number j to the underlying writer fails
write_fails(fault, j) ==
    \/ fault.kind = "once" /\ j = fault.unit
    \/ fault.kind = "onward" /\ j >= fault.unit

\* body.len() in YPBankBinFormat::write_to
bin_body_len(record) ==
    BIN_FIXED_LEN
        + (IF record.description = None THEN 0 ELSE Len(record.description[1]))

\* the calls one pass of the binary loop makes to the underlying writer, in
\* order; TRUE for a call whose error write_all returns to write_to, FALSE
\* for the flush in BufWriter::drop, whose error is dropped
bin_write_calls(body_len) ==
    IF body_len <= DEFAULT_BUF_SIZE - 2 * MAGIC_SIZE THEN <<FALSE>>
    ELSE IF body_len < DEFAULT_BUF_SIZE THEN <<TRUE, FALSE>>
    ELSE <<TRUE, TRUE>>

\* writeln!(writer, "{}", s): write_all of s and of the line feed
writeln_calls == <<TRUE, TRUE>>

\* the calls of the pass of write_to at index pos
write_calls(f, records, pos) ==
    IF f = "bin" THEN bin_write_calls(bin_body_len(records[pos]))
    ELSE writeln_calls

\* the position of write_to before its first write
WriteInit(f) ==
    [pos |-> IF f = "csv" THEN 0 ELSE 1, calls |-> 0, failed |-> FALSE]

\* one pass, given the set of its calls that fail with a returned error:
\* the pass stops at the first of them
write_pass_stop(w, calls, fault, stop, returned) ==
    [pos |-> w.pos + 1,
     calls |-> w.calls + stop,
     failed |-> w.failed
                  \/ \E i \in 1..stop : write_fails(fault, w.calls + i),
     err |-> returned]

\* one pass of write_to: the calls are made in order up to the first one
\* that fails with a returned error
write_pass(w, calls, fault) ==
    IF \E i \in 1..Len(calls) : calls[i] /\ write_fails(fault, w.calls + i)
    THEN write_pass_stop(w, calls, fault,
             first_index({i \in 1..Len(calls) :
                             calls[i] /\ write_fails(fault, w.calls + i)}),
             TRUE)
    ELSE write_pass_stop(w, calls, fault, Len(calls), FALSE)

\* the writer position kept in rd
WriterLocals(p) == [pos |-> p.pos, calls |-> p.calls, failed |-> p.failed]

InitWrite ==
    /\ pc = "emit"
    /\ fmt \in Formats
    /\ recs \in WriteRecLists(fmt)
    /\ damage \in WriterFaults
    /\ rd = WriteInit(fmt)
    /\ stream = <<>> /\ result = NoResult
    /\ txs = <<>> /\ conv = NoResult /\ back = NoResult
    /\ files = [f \in Formats |-> NoResult]
    /\ parsed = [f \in Formats |-> NoResult]

\* the state after a pass p of write_to: `?` returns the error of a failed
\* write_all
WritePassed(p) ==
    /\ rd' = WriterLocals(p)
    /\ IF p.err
       THEN pc' = "emitted" /\ result' = Err("IOError", 0)
       ELSE pc' = pc /\ result' = result
    /\ UNCHANGED <<fmt, recs, stream, damage, txs, conv, back, files, parsed>>

\* YPBankCsvFormat::write_to: writeln! of the header
WriteTitle ==
    /\ pc = "emit"
    /\ rd.pos = 0
    /\ WritePassed(write_pass(rd, writeln_calls, damage))

\* one pass of the loop over the records
WriteRecord ==
    /\ pc = "emit"
    /\ rd.pos \in 1..Len(recs)
    /\ WritePassed(write_pass(rd, write_calls(fmt, recs, rd.pos), damage))

\* the end of the loop: Ok(())
WriteReturn ==
    /\ pc = "emit"
    /\ rd.pos = Len(recs) + 1
    /\ pc' = "emitted"
    /\ result' = Ok(<<>>)
    /\ UNCHANGED <<fmt, recs, stream, damage, rd, txs, conv, back, files, parsed>>

NextWrite ==
    \/ WriteTitle
    \/ WriteRecord
    \/ WriteReturn

SpecWrite == InitWrite /\ [][NextWrite]_vars

---------------------------------------------------------------------------
(* Specification of YPBankIO::read_from (CSV and Text) on inputs around    *)
(* the byte ceiling.  In this specification stream holds the leading       *)
(* characters of the input, the output of the writer on recs, and          *)
(* damage.unit the number of further bytes of valid UTF-8 that follow them *)
(* in the reader; their content is left open, and so is the value          *)
(* read_executor returns on an input that has them.  rd holds the length   *)
(* of the buffer of read_from.                                             *)

\* lengths of the input around the ceiling, given the length of its head
FillLens(head_len) ==
    {0} \cup {MAX_SIZE_CSV_TXT_BYTES - head_len + d : d \in {-1, 0, 1}}

\* buffer.len() of the whole input
input_len(head, fill) == Len(head) + fill.unit

\* faulty variant of exceeds_limit: an input of exactly the ceiling is refused
exceeds_limit_AtCeiling(len) == len >= MAX_SIZE_CSV_TXT_BYTES

\* buffer.len() > MAX_SIZE_CSV_TXT_BYTES
exceeds_limit(len) == len > MAX_SIZE_CSV_TXT_BYTES

\* Self::read_executor(buffer) for the format f
read_executor_of(f, buffer) ==
    IF f = "csv" THEN csv_read_executor(buffer) ELSE text_read_executor(buffer)

\* the values read_executor may return: the one computed on the head when
\* nothing follows it, any kind of value otherwise
executor_outcomes(f, head, fill) ==
    IF fill.unit = 0 THEN {read_executor_of(f, head)}
    ELSE {read_executor_of(f, head), Ok(<<>>), Err("ParseError", 0)}

\* the locals of read_from: the number of bytes held in buffer
LimitLocals(n) == [len |-> n]

\* inputs without a record: the header of a CSV file with and without its
\* line break, an empty input, a Text input of blank lines only
RecordlessInputs(f) ==
    IF f = "csv"
    THEN {csv_make_title, csv_make_title \o <<"\n">>, <<>>}
    ELSE {<<>>, <<"\n">>, <<"\n", "\n", "\n", " ", " ", "\n", "\t", "\n">>}

\* the leading characters of the input: the file written from records, or
\* an input without a record when there are no records
LimitHeads(f, records) ==
    {WriteTo(f, records)} \cup
    (IF records = <<>> THEN RecordlessInputs(f) ELSE {})

InitLimit ==
    /\ pc = "open"
    /\ fmt \in {"csv", "txt"}
    /\ recs \in RecLists(fmt)
    /\ stream \in LimitHeads(fmt, recs)
    /\ \E n \in FillLens(Len(stream)) :
          damage = [kind |-> "fill", unit |-> n]
    /\ rd = LimitLocals(0)
    /\ result = NoResult
    /\ txs = <<>> /\ conv = NoResult /\ back = NoResult
    /\ files = [f \in Formats |-> NoResult]
    /\ parsed = [f \in Formats |-> NoResult]

\* buf_reader.read_to_string(&mut buffer): the whole input is read
ReadToString ==
    /\ pc = "open"
    /\ rd' = LimitLocals(input_len(stream, damage))
    /\ pc' = "read"
    /\ UNCHANGED <<fmt, recs, stream, damage, result, txs, conv, back, files, parsed>>

\* if buffer.len() > MAX_SIZE_CSV_TXT_BYTES { return Err(lim_exceed(..)) }
LimitExceeded ==
    /\ pc = "read"
    /\ exceeds_limit(rd.len)
    /\ result' = lim_exceed(rd.len, MAX_SIZE_CSV_TXT_BYTES)
    /\ pc' = "done"
    /\ UNCHANGED <<fmt, recs, stream, damage, rd, txs, conv, back, files, parsed>>

\* Self::read_executor(buffer)?, then the test for an empty list; back
\* keeps the value read_executor returned
ReadExecutor ==
    /\ pc = "read"
    /\ ~exceeds_limit(rd.len)
    /\ \E r \in executor_outcomes(fmt, stream, damage) :
          /\ back' = r
          /\ result' = non_empty(r)
    /\ pc' = "done"
    /\ UNCHANGED <<fmt, recs, stream, damage, rd, txs, conv, files, parsed>>

NextLimit ==
    \/ ReadToString
    \/ LimitExceeded
    \/ ReadExecutor

SpecLimit == InitLimit /\ [][NextLimit]_vars

---------------------------------------------------------------------------
(* Specification of the CSV and Text parsers on variants of a written      *)
(* file.  In this specification damage is the edit made to the file the    *)
(* writer produced from recs (kind "none": no edit), unit the data line or *)
(* block it is made at (0 for the header and for the whole file), result   *)
(* the value read_executor returns on the edited file and back the value   *)
(* it returns on the file as written.                                      *)

\* descriptions with quotes, commas and white space
SpecialDescriptions ==
    {<<"\"">>, <<",">>, <<"\"", ",", "\"">>, <<"a", "\"", "\"", "b">>,
     <<",", "\"", "\"">>, <<",", " ">>, <<"\t", ",">>, <<" ", "\"">>}

\* descriptions with a line break: inside, at the end, and before text
\* that reads as the first seven fields of a data line
LineBreakDescriptions ==
    {<<"a", "\n", "b">>, <<"a", "\n">>,
     <<"\n", "1", ",", "D", "E", "P", "O", "S", "I", "T", ",", "0", ",", "2",
       ",", "3", ",", "4", ",", "S", "U", "C", "C", "E", "S", "S", ",">>}

\* whether the description of one of the records holds a line break
has_line_break(records) ==
    \E i \in 1..Len(records) :
        \E k \in 1..Len(records[i].description) :
            records[i].description[k] = "\n"

\* the record lists written: those of RecLists of at most MaxEdited
\* records, one record with each special description and, for CSV, one
\* record with each description with a line break
EditRecLists(f) ==
    {l \in RecLists(f) : Len(l) <= MaxEdited} \cup
    {<<[tx_id |-> 1, tx_type |-> "Deposit", from_user_id |-> 0, to_user_id |-> 2,
        amount |-> 3, timestamp |-> 4, status |-> "Success",
        description |-> d]>> :
        d \in SpecialDescriptions
               \cup (IF f = "csv" THEN LineBreakDescriptions ELSE {})}

\* index of the first character of line n of s (of the end of s, plus one,
\* for the line after the last)
line_start(s, n) ==
    IF n = 1 THEN 1
    ELSE nth_index({k \in 1..Len(s) : s[k] = "\n"}, n - 1) + 1

\* s with the line new inserted before its line n
insert_line(s, n, new) ==
    SubSeq(s, 1, line_start(s, n) - 1) \o new \o <<"\n">>
    \o SubSeq(s, line_start(s, n), Len(s))

\* edits of the header line of a CSV file
CsvHeaderEdits ==
    {"hdr_lead_ws", "hdr_trail_ws", "hdr_inner_ws", "hdr_lower", "hdr_missing",
     "hdr_extra", "hdr_char", "hdr_absent"}

\* edits that replace a CSV data line by one that does not split into 8
\* fields
CsvLineEdits == {"short", "long", "blank", "seven", "midquote", "single"}

\* edits that add an empty line to a CSV file
CsvBlankEdits == {"blank_before", "spaces_before", "blank_end"}

\* edits that add a comment line to a Text file
TextCommentEdits == {"comment_before", "comment_inside", "comment_end"}

\* edits that add an empty line inside a Text block: after its title, or
\* after the fourth line of its body
TextBlankEdits == {"blank_after_title", "blank_inside"}

\* edits that add a malformed line to the body of a Text block
TextBodyEdits == {"key", "dup", "dup_lower", "nocolon", "novalue", "nokey"}

\* reorderings of the 8 body lines of a Text block: line i of the new body
\* is line TextPerms[kind][i] of the old one
TextPerms ==
    [reverse |-> <<8, 7, 6, 5, 4, 3, 2, 1>>,
     rotate |-> <<2, 3, 4, 5, 6, 7, 8, 1>>,
     swap1 |-> <<2, 1, 3, 4, 5, 6, 7, 8>>,
     swap2 |-> <<1, 3, 2, 4, 5, 6, 7, 8>>,
     swap3 |-> <<1, 2, 4, 3, 5, 6, 7, 8>>,
     swap4 |-> <<1, 2, 3, 5, 4, 6, 7, 8>>,
     swap5 |-> <<1, 2, 3, 4, 6, 5, 7, 8>>,
     swap6 |-> <<1, 2, 3, 4, 5, 7, 6, 8>>,
     swap7 |-> <<1, 2, 3, 4, 5, 6, 8, 7>>,
     desc_first |-> <<8, 1, 2, 3, 4, 5, 6, 7>>]

\* the edits of a file of n records: those of the whole file at unit 0,
\* those of a data line or block at its index
Edits(f, n) ==
    IF f = "csv"
    THEN [kind : {"none", "blank_end"} \cup CsvHeaderEdits, unit : {0}]
         \cup [kind : CsvLineEdits \cup (CsvBlankEdits \ {"blank_end"}),
               unit : 1..n]
    ELSE [kind : {"none", "comment_end"}, unit : {0}]
         \cup [kind : (TextCommentEdits \ {"comment_end"}) \cup TextBodyEdits
                        \cup TextBlankEdits \cup DOMAIN TextPerms,
               unit : 1..n]

\* an edited header line
CsvHeaderEdited(kind) ==
    CASE kind = "hdr_lead_ws" -> <<" ">> \o csv_make_title
      [] kind = "hdr_trail_ws" -> csv_make_title \o <<" ", "\t">>
      [] kind = "hdr_inner_ws" ->
            fields[1] \o <<",", " ">> \o join(Tail(fields), <<",">>)
      [] kind = "hdr_lower" -> <<"t">> \o Tail(csv_make_title)
      [] kind = "hdr_missing" -> join(SubSeq(fields, 1, 7), <<",">>)
      [] kind = "hdr_extra" -> csv_make_title \o <<",", "X">>
      [] kind = "hdr_char" -> <<"x">> \o csv_make_title

\* a data line that does not split into 8 fields
CsvLineEdited(kind) ==
    CASE kind = "seven" ->
            <<"1", ",", "D", "E", "P", "O", "S", "I", "T", ",", "0", ",", "2",
              ",", "3", ",", "4", ",", "S", "U", "C", "C", "E", "S", "S", ",">>
      [] kind = "midquote" ->
            <<"1", ",", "\"", "D", "E", "P", "O", "S", "I", "T", "\"", ",", "0",
              ",", "2", ",", "3", ",", "4", ",", "S", "U", "C", "C", "E", "S",
              "S", ",", "\"", "a", "\"">>
      [] kind = "single" -> <<"x">>

\* a CSV file s after an edit
CsvEdited(s, kind, unit) ==
    CASE kind = "none" -> s
      [] kind = "hdr_absent" -> SubSeq(s, line_start(s, 2), Len(s))
      [] kind \in CsvHeaderEdits \ {"hdr_absent"} ->
            replace_line(s, 1, CsvHeaderEdited(kind))
      [] kind \in {"short", "long", "blank"} -> CsvDamaged(s, kind, unit)
      [] kind \in {"seven", "midquote", "single"} ->
            replace_line(s, unit + 1, CsvLineEdited(kind))
      [] kind = "blank_before" -> insert_line(s, unit + 1, <<>>)
      [] kind = "spaces_before" -> insert_line(s, unit + 1, <<" ", " ">>)
      [] kind = "blank_end" -> s \o <<"\n">>

\* a line added to a Text file
TextLineAdded(kind) ==
    CASE kind \in TextCommentEdits -> <<"#", " ", "n", "o", "t", "e">>
      [] kind = "key" ->
            <<"U", "N", "K", "N", "O", "W", "N", "_", "F", "I", "E", "L", "D",
              ":", " ", "1">>
      [] kind = "dup" -> fields[1] \o <<":", " ", "1">>
      [] kind = "dup_lower" -> <<"t", "x", "_", "i", "d", ":", " ", "1">>
      [] kind = "nocolon" -> <<"g", "a", "r", "b", "a", "g", "e">>
      [] kind = "novalue" -> <<"N", "O", "T", "E", ":">>
      [] kind = "nokey" -> <<":", " ", "1">>

\* the body lines of the block whose title is line title of s, reordered
TextReordered(s, title, order) ==
    SubSeq(s, 1, line_start(s, title + 1) - 1)
    \o join([i \in 1..8 |-> lines(s)[title + order[i]]], <<"\n">>) \o <<"\n">>
    \o SubSeq(s, line_start(s, title + 9), Len(s))

\* a Text file s after an edit in the block whose title is line title
TextEdited(s, kind, title) ==
    CASE kind = "none" -> s
      [] kind = "comment_end" -> s \o TextLineAdded(kind) \o <<"\n">>
      [] kind = "comment_before" -> insert_line(s, title, TextLineAdded(kind))
      [] kind \in {"comment_inside"} \cup TextBodyEdits ->
            insert_line(s, title + 2, TextLineAdded(kind))
      [] kind = "blank_after_title" -> insert_line(s, title + 1, <<>>)
      [] kind = "blank_inside" -> insert_line(s, title + 5, <<>>)
      [] kind \in DOMAIN TextPerms -> TextReordered(s, title, TextPerms[kind])

\* the file s after the edit e
Edited(f, s, e) ==
    IF f = "csv" THEN CsvEdited(s, e.kind, e.unit)
    ELSE TextEdited(s, e.kind, (e.unit - 1) * TEXT_BLOCK_LINES + 1)

InitEdit ==
    /\ pc = "edit"
    /\ fmt \in {"csv", "txt"}
    /\ recs \in EditRecLists(fmt)
    /\ stream = WriteTo(fmt, recs)
    /\ damage = NoDamage
    /\ rd = BinReadInit /\ result = NoResult
    /\ txs = <<>> /\ conv = NoResult /\ back = NoResult
    /\ files = [f \in Formats |-> NoResult]
    /\ parsed = [f \in Formats |-> NoResult]

\* the file is edited, or kept as written; a file whose records do not
\* take one line or one block each is kept as written
Edit ==
    /\ pc = "edit"
    /\ \E e \in IF has_line_break(recs) THEN {NoDamage}
                 ELSE Edits(fmt, Len(recs)) :
          /\ damage' = e
          /\ stream' = Edited(fmt, stream, e)
    /\ pc' = "edited"
    /\ UNCHANGED <<fmt, recs, rd, result, txs, conv, back, files, parsed>>

\* read_executor on the edited file, and on the file as written
ReadEdited ==
    /\ pc = "edited"
    /\ result' = read_executor_of(fmt, stream)
    /\ back' = read_executor_of(fmt, WriteTo(fmt, recs))
    /\ pc' = "done"
    /\ UNCHANGED <<fmt, recs, stream, damage, rd, txs, conv, files, parsed>>

NextEdit ==
    \/ Edit
    \/ ReadEdited

SpecEdit == InitEdit /\ [][NextEdit]_vars

---------------------------------------------------------------------------
(* Specification of the Text parser on short arbitrary inputs: the loop of *)
(* read_executor runs line by line.  In this specification stream is the   *)
(* input, rd holds the locals of read_executor (the lines the iterator has *)
(* still to give, the number count of lines it has given, the records and  *)
(* the block collected), and result is the value read_executor returns.    *)

\* the body lines of a block that parses to a record
BODY_LINES ==
    <<"T", "X", "_", "I", "D", ":", " ", "1", "\n">>
    \o <<"T", "X", "_", "T", "Y", "P", "E", ":", " ", "D", "E", "P", "O", "S", "I", "T", "\n">>
    \o <<"F", "R", "O", "M", "_", "U", "S", "E", "R", "_", "I", "D", ":", " ", "0", "\n">>
    \o <<"T", "O", "_", "U", "S", "E", "R", "_", "I", "D", ":", " ", "2", "\n">>
    \o <<"A", "M", "O", "U", "N", "T", ":", " ", "3", "\n">>
    \o <<"T", "I", "M", "E", "S", "T", "A", "M", "P", ":", " ", "4", "\n">>
    \o <<"S", "T", "A", "T", "U", "S", ":", " ", "S", "U", "C", "C", "E", "S", "S", "\n">>
    \o <<"D", "E", "S", "C", "R", "I", "P", "T", "I", "O", "N", ":", " ", "\"", "a", "\"">>

\* the pieces the inputs are made of: an empty line, a line of white space,
\* a title, a line with the marker that is no title, the body of a record,
\* one body line, a line with an unknown key, a line without a colon, a
\* line whose value is a lone quote
InputPieces ==
    {<<>>,
     <<" ", "\t">>,
     <<"#", " ", "R", "e", "c", "o", "r", "d", " ", "1", " ", "(", "D", ")">>,
     <<"#", "1">>,
     BODY_LINES,
     <<"T", "X", "_", "I", "D", ":", " ", "1">>,
     <<"K", ":", "1">>,
     <<"x">>,
     <<"D", "E", "S", "C", "R", "I", "P", "T", "I", "O", "N", ":", "\"">>}

RECURSIVE unlines(_)
\* the pieces, each followed by a line feed
unlines(ls) ==
    IF ls = <<>> THEN <<>> ELSE Head(ls) \o <<"\n">> \o unlines(Tail(ls))

\* the inputs of at most MaxLines pieces
TextInputs ==
    {unlines(ls) : ls \in UNION {[1..n -> InputPieces] : n \in 0..MaxLines}}

\* the locals of read_executor in its loop: rest is what buffer.lines() has
\* still to give, count the number of lines it has given
LoopLocals(rest, count, st) == [rest |-> rest, count |-> count, st |-> st]

\* the arm of the loop the next line takes: "end" when there is no line
loop_arm(l) ==
    IF l.rest = <<>> THEN "end"
    ELSE IF is_empty_line(Head(l.rest)) THEN "blank"
    ELSE IF l.st.block_buffer = <<>> /\ is_hash_marker(Head(l.rest)) THEN "open"
    ELSE IF is_hash_marker(Head(l.rest)) THEN "next"
    ELSE IF l.st.block_buffer # <<>> THEN "push"
    ELSE "stray"

InitLines ==
    /\ pc = "lines"
    /\ fmt = "txt"
    /\ stream \in TextInputs
    /\ rd = LoopLocals(lines(stream), 0, TextLocals(<<>>, <<>>))
    /\ result = NoResult
    /\ recs = <<>> /\ damage = NoDamage
    /\ txs = <<>> /\ conv = NoResult /\ back = NoResult
    /\ files = [f \in Formats |-> NoResult]
    /\ parsed = [f \in Formats |-> NoResult]

\* one pass of the loop: step is the outcome of the arm taken; an error is
\* returned at once
LoopPass(step) ==
    /\ IF IsErr(step)
       THEN /\ result' = step
            /\ pc' = "done"
            /\ rd' = rd
       ELSE /\ rd' = LoopLocals(Tail(rd.rest), rd.count + 1, step.val)
            /\ UNCHANGED <<pc, result>>
    /\ UNCHANGED <<fmt, recs, stream, damage, txs, conv, back, files, parsed>>

\* the arm the next line takes is run
LoopArm(arm) ==
    /\ pc = "lines"
    /\ loop_arm(rd) = arm
    /\ LoopPass(text_step(rd.st, Head(rd.rest), rd.count + 1))

\* if line.is_empty_line() { continue }
TextBlankLine == LoopArm("blank")

\* (true, true): the title opens a block
TextOpenBlock == LoopArm("open")

\* (false, true): the block is parsed and the title opens the next one
TextNextBlock == LoopArm("next")

\* (false, false): the line joins the block
TextPushLine == LoopArm("push")

\* (true, false): a line outside a block
TextStrayLine == LoopArm("stray")

\* the code after the loop: the last block is parsed
TextEnd ==
    /\ pc = "lines"
    /\ loop_arm(rd) = "end"
    /\ result' = text_after_loop(Ok(rd.st), Len(lines(stream)))
    /\ pc' = "done"
    /\ UNCHANGED <<fmt, recs, stream, damage, rd, txs, conv, back, files, parsed>>

NextLines ==
    \/ TextBlankLine
    \/ TextOpenBlock
    \/ TextNextBlock
    \/ TextPushLine
    \/ TextStrayLine
    \/ TextEnd

SpecLines == InitLines /\ [][NextLines]_vars

\* the run line by line returns what read_executor returns on the input
LinesAgree == pc = "done" => result = text_read_executor(stream)

---------------------------------------------------------------------------
(* split_csv_line character by character (tools.rs, split_csv_line).       *)
(* stream is the line; rd holds the locals of the function: chars is what  *)
(* the iterator has still to give, fields and buffer are the two locals of *)
(* that name; result is the Option returned.                               *)

\* the characters of the lines
SplitAlphabet == {",", "\"", " ", "\t", "a"}

\* the lines: every string of at most MaxChars characters
SplitInputs == UNION {[1..n -> SplitAlphabet] : n \in 0..MaxChars}

\* the locals of split_csv_line
SplitLocals(chars, flds, buffer) ==
    [chars |-> chars, fields |-> flds, buffer |-> buffer]

\* the Option returned, as a result
SplitReturn(option) ==
    IF option = None THEN [NoResult EXCEPT !.kind = "None"]
    ELSE [NoResult EXCEPT !.kind = "Some", !.val = option[1]]

InitSplit ==
    /\ pc = "split"
    /\ fmt = "csv"
    /\ stream \in SplitInputs
    /\ rd = SplitLocals(stream, <<>>, <<>>)
    /\ result = NoResult
    /\ recs = <<>> /\ damage = NoDamage
    /\ txs = <<>> /\ conv = NoResult /\ back = NoResult
    /\ files = [f \in Formats |-> NoResult]
    /\ parsed = [f \in Formats |-> NoResult]

\* the function returns option
SplitDone(option) ==
    /\ result' = SplitReturn(option)
    /\ pc' = "done"
    /\ UNCHANGED <<fmt, recs, stream, damage, rd, txs, conv, back, files, parsed>>

\* the loop goes on with the locals given
SplitPass(flds, buffer) ==
    /\ rd' = SplitLocals(Tail(rd.chars), flds, buffer)
    /\ UNCHANGED <<pc, fmt, recs, stream, damage, result, txs, conv, back,
                   files, parsed>>

\* arm '"' with a pending field that is not blank: None
SplitQuoteRejected ==
    /\ pc = "split" /\ rd.chars # <<>>
    /\ Head(rd.chars) = "\""
    /\ trim(rd.buffer) # <<>>
    /\ SplitDone(None)

\* arm '"' with a blank pending field: the inner loop reads the quoted
\* field, which is pushed, and the fields are returned
SplitQuoted ==
    /\ pc = "split" /\ rd.chars # <<>>
    /\ Head(rd.chars) = "\""
    /\ trim(rd.buffer) = <<>>
    /\ SplitDone(Some(Append(rd.fields,
                             trim(csv_quoted(rd.chars, 2, rd.buffer)))))

\* arm ',': the pending field is pushed and the buffer cleared
SplitComma ==
    /\ pc = "split" /\ rd.chars # <<>>
    /\ Head(rd.chars) = ","
    /\ SplitPass(Append(rd.fields, trim(rd.buffer)), <<>>)

\* arm _: the character joins the pending field
SplitChar ==
    /\ pc = "split" /\ rd.chars # <<>>
    /\ Head(rd.chars) \notin {"\"", ","}
    /\ SplitPass(rd.fields, Append(rd.buffer, Head(rd.chars)))

\* the code after the loop
SplitEnd ==
    /\ pc = "split" /\ rd.chars = <<>>
    /\ LET flds == IF trim(rd.buffer) # <<>>
                   THEN Append(rd.fields, trim(rd.buffer))
                   ELSE rd.fields
       IN  SplitDone(IF Len(flds) < 2 THEN None ELSE Some(flds))

NextSplit ==
    \/ SplitQuoteRejected
    \/ SplitQuoted
    \/ SplitComma
    \/ SplitChar
    \/ SplitEnd

SpecSplit == InitSplit /\ [][NextSplit]_vars

\* the run character by character returns what split_csv_line returns
SplitAgree == pc = "done" => result = SplitReturn(split_csv_line(stream))

---------------------------------------------------------------------------
(* C1: for every non-empty list of valid canonical transactions and each   *)
(* of the three formats, convert_transactions followed by to_transaction   *)
(* of the same format gives the original list back, description None       *)
(* versus Some included.                                                   *)
C1_RoundTrip ==
    \A f \in Formats :
        /\ files[f] # NoResult => IsOk(files[f])
        /\ parsed[f] # NoResult => parsed[f] = Ok(txs)

---------------------------------------------------------------------------
(* C2: the value the binary reader compares with MAX_SIZE_BIN_BYTES while  *)
(* it reads frame k is the sum over frames 1..k of the length prefix plus  *)
(* BODY_LEN, and SizeLimitExceeded is returned only when that sum exceeds  *)
(* the ceiling.                                                            *)
C2_CumulativeBytes ==
    fmt = "bin" =>
        /\ rd.current_bytes # 0 => rd.current_bytes = rd.declared
        /\ (pc = "done" /\ result.kind = "SizeLimitExceeded") =>
              rd.declared + 4 + BinDeclaredLen(stream, rd) > MAX_SIZE_BIN_BYTES

---------------------------------------------------------------------------
(* C3: for every CSV or Text record with amount m <= i64::MAX, the         *)
(* canonical amount is +m for a Deposit and -m for a Transfer or a         *)
(* Withdrawal, and converting back gives the original record, amount m     *)
(* included.                                                               *)
C3_SignNormalizationRoundTrip ==
    (fmt \in {"csv", "txt"} /\ recs[1].amount <= I64_MAX) =>
        /\ pc # "failed"
        /\ pc \in {"converted", "back"} =>
              /\ IsOk(conv)
              /\ conv.val.amount = IF recs[1].tx_type = "Deposit"
                                   THEN recs[1].amount
                                   ELSE -recs[1].amount
        /\ pc = "back" => back = Ok(recs[1])

C3_Witness ==
    /\ pc = "back"
    /\ fmt = "csv"
    /\ recs[1].tx_type = "Withdrawal"
    /\ recs[1].amount = I64_MAX
    /\ conv.val.amount = -I64_MAX
    /\ back.val.amount = I64_MAX

---------------------------------------------------------------------------
(* C4: every canonical transaction produced by converting a per-format     *)
(* record obeys the sign convention: amount >= 0 for a Deposit, amount <= 0 *)
(* for a Transfer or a Withdrawal.                                         *)
C4_SignConvention ==
    IsOk(conv) =>
        /\ conv.val.tx_type = "Deposit" => conv.val.amount >= 0
        /\ conv.val.tx_type \in {"Transfer", "Withdrawal"} => conv.val.amount <= 0

---------------------------------------------------------------------------
(* C5 as stated: a binary record's amount reaches the canonical            *)
(* transaction unchanged for every tx_type and every i64 value, and the    *)
(* canonical amount reaches the binary record unchanged.                   *)
C5_BinaryAmountUnchanged ==
    (fmt = "bin" /\ pc \in {"converted", "back"}) =>
        /\ conv.val.amount = recs[1].amount
        /\ pc = "back" => back.val.amount = conv.val.amount

(* C5 as amended: a binary record's amount reaches the canonical           *)
(* transaction unchanged when the record is a Deposit or the amount is     *)
(* zero or negative (a negative amount is never negated again); a positive *)
(* amount of a Transfer or Withdrawal is negated; the canonical amount     *)
(* reaches the binary record unchanged.                                    *)
C5_BinaryAmount ==
    (fmt = "bin" /\ pc \notin {"convert", "collected"}) =>
        /\ pc \in {"converted", "back"}
        /\ conv.val.amount =
              IF recs[1].tx_type # "Deposit" /\ recs[1].amount > 0
              THEN -recs[1].amount
              ELSE recs[1].amount
        /\ pc = "back" => back.val.amount = conv.val.amount

C5_Witness ==
    /\ pc = "back"
    /\ fmt = "bin"
    /\ recs[1].tx_type = "Transfer"
    /\ recs[1].amount = I64_MIN
    /\ conv.val.amount = I64_MIN
    /\ back.val.amount = I64_MIN

---------------------------------------------------------------------------
(* C6: for every binary record write_to emits 0 as from_user_id of a       *)
(* Deposit and 0 as to_user_id of a Withdrawal, emits every other user id  *)
(* as stored, and leaves the record in memory as it was.                   *)

\* FROM_USER of the frame at offset p of a binary file
FrameFromUser(s, p) == from_be_bytes(SubSeq(s, p + 18, p + 25))

\* TO_USER of the frame at offset p of a binary file
FrameToUser(s, p) == from_be_bytes(SubSeq(s, p + 26, p + 33))

C6_FramesZeroUnusedUser ==
    (fmt = "bin" /\ pc = "written") =>
        \A i \in 1..Len(recs) :
            /\ FrameFromUser(stream, frame_start(stream, i)) =
                  IF recs[i].tx_type = "Deposit" THEN 0 ELSE recs[i].from_user_id
            /\ FrameToUser(stream, frame_start(stream, i)) =
                  IF recs[i].tx_type = "Withdrawal" THEN 0 ELSE recs[i].to_user_id

C6_WriterZeroesUnusedUser ==
    [](C6_FramesZeroUnusedUser) /\ [][recs' = recs]_vars

C6_Witness ==
    /\ fmt = "bin" /\ pc = "written"
    /\ Len(recs) = 2
    /\ recs[1].tx_type = "Deposit" /\ recs[1].from_user_id = 5
    /\ FrameFromUser(stream, frame_start(stream, 1)) = 0
    /\ recs[2].tx_type = "Withdrawal" /\ recs[2].to_user_id = 6
    /\ FrameToUser(stream, frame_start(stream, 2)) = 0
    /\ FrameFromUser(stream, frame_start(stream, 2)) = 1

---------------------------------------------------------------------------
(* C7: the same transaction stored in a CSV or Text file and in a binary   *)
(* file converts to equal canonical transactions, so the comparer counts   *)
(* no mismatch; a transaction without description included.                *)
C7_CrossFormatEqual ==
    /\ (IsOk(parsed[fmt]) /\ IsOk(parsed["bin"])) => parsed[fmt] = parsed["bin"]
    /\ (pc = "compared" /\ IsOk(result)) => result.val = 0

---------------------------------------------------------------------------
(* C8: when the 4 bytes at a frame boundary, the first or a later one,     *)
(* differ from MAGIC, binary read_from fails with the kind ParseError, not *)
(* ParseBinaryError, and returns no record.                                *)
C8_BadMagicIsParseError ==
    (/\ fmt = "bin" /\ pc = "done"
     /\ Len(stream) - rd.pos >= MAGIC_SIZE
     /\ SubSeq(stream, rd.pos + 1, rd.pos + MAGIC_SIZE) # MAGIC) =>
        /\ result.kind = "ParseError"
        /\ result.val = <<>>

C8_Witness ==
    /\ fmt = "bin" /\ pc = "done"
    /\ damage = [kind |-> "magic", unit |-> 3]
    /\ Len(rd.records) = 2
    /\ SubSeq(stream, rd.pos + 1, rd.pos + MAGIC_SIZE) # MAGIC
    /\ result.kind = "ParseError"

---------------------------------------------------------------------------
(* C9: binary read_from returns Ok only when the stream ends exactly at a  *)
(* frame boundary; when 1 to 3 bytes follow the last complete frame it     *)
(* fails.                                                                  *)
C9_ShortMagicIsError ==
    (fmt = "bin" /\ pc = "done") =>
        /\ IsOk(result) => rd.pos = Len(stream)
        /\ Len(stream) - rd.pos \in 1..3 => IsErr(result)

---------------------------------------------------------------------------
(* C10: each reader returns Err, or Ok with exactly one record per frame,  *)
(* data line or block of its input, in input order; when a unit of the     *)
(* input is invalid it returns Err, however many valid units precede it.   *)
C10_AllOrNothing ==
    pc = "done" =>
        /\ damage # NoDamage => IsErr(result)
        /\ IsOk(result) =>
              /\ Len(result.val) = Len(recs)
              /\ \A i \in 1..Len(recs) : result.val[i].tx_id = recs[i].tx_id

---------------------------------------------------------------------------
(* C11: when a call to the underlying writer has failed while write_to     *)
(* emitted the records, write_to returns Err; it never returns Ok(()) after *)
(* a failed write, for each of the three writers.                          *)
C11_WriteErrorSurfaces ==
    (pc = "emitted" /\ rd.failed) => IsErr(result)

---------------------------------------------------------------------------
(* C12: CSV/Text read_from on an input longer than MAX_SIZE_CSV_TXT_BYTES  *)
(* returns SizeLimitExceeded with actual = the input length and limit =    *)
(* the ceiling, and read_executor is not called; an input of exactly the   *)
(* ceiling length is handed to read_executor.                              *)
C12_CeilingBeforeParsing ==
    pc = "done" =>
        /\ input_len(stream, damage) > MAX_SIZE_CSV_TXT_BYTES =>
              /\ result = lim_exceed(input_len(stream, damage),
                                     MAX_SIZE_CSV_TXT_BYTES)
              /\ result.kind = "SizeLimitExceeded"
              /\ back = NoResult
        /\ input_len(stream, damage) = MAX_SIZE_CSV_TXT_BYTES =>
              /\ back # NoResult
              /\ result = non_empty(back)

C12_Witness ==
    /\ pc = "done"
    /\ recs # <<>>
    /\ input_len(stream, damage) = MAX_SIZE_CSV_TXT_BYTES + 1
    /\ result.kind = "SizeLimitExceeded"
    /\ result.actual = MAX_SIZE_CSV_TXT_BYTES + 1
    /\ result.limit = MAX_SIZE_CSV_TXT_BYTES
    /\ back = NoResult

---------------------------------------------------------------------------
(* C13: CSV/Text read_from never holds more than MAX_SIZE_CSV_TXT_BYTES    *)
(* bytes of the input in its buffer: the ceiling is enforced before or     *)
(* while the stream is read, not after the whole stream has been read.     *)
C13_BufferWithinCeiling ==
    rd.len <= MAX_SIZE_CSV_TXT_BYTES

---------------------------------------------------------------------------
---------------------------------------------------------------------------
---------------------------------------------------------------------------
(* C16: a CSV input with empty lines between or after its data lines       *)
(* parses to the same record list as the input without those lines.        *)
C16_BlankLinesIgnored ==
    (pc = "done" /\ fmt = "csv" /\ damage.kind \in CsvBlankEdits) =>
        result = back

---------------------------------------------------------------------------
(* C17: a line that begins with # and is not a record title, inserted      *)
(* anywhere in a valid Text input, does not change the parsed record list. *)
C17_CommentsIgnored ==
    (pc = "done" /\ fmt = "txt" /\ damage.kind \in TextCommentEdits) =>
        result = back

---------------------------------------------------------------------------
(* C18: Text read_executor fails, with no records, on every input with a   *)
(* block that has a key which is not a field name, a key that occurs twice *)
(* (compared without regard to case), or a body line that has not the      *)
(* shape key: value; the same key in two different blocks is accepted.     *)
C18_MalformedBodyFails ==
    (pc = "done" /\ fmt = "txt") =>
        /\ damage.kind \in TextBodyEdits =>
              /\ result.kind = "ParseError"
              /\ result.val = <<>>
        /\ damage.kind = "none" =>
              /\ IsOk(result)
              /\ Len(result.val) = Len(recs)

C18_Witness ==
    /\ pc = "done" /\ fmt = "txt"
    /\ damage = [kind |-> "dup_lower", unit |-> 2]
    /\ Len(recs) = 2
    /\ IsOk(back) /\ Len(back.val) = 2
    /\ result.kind = "ParseError"

---------------------------------------------------------------------------
(* C19: the record parsed from a Text block does not depend on the order   *)
(* of its 8 body lines: a block with its body lines reordered parses to    *)
(* the same record.                                                        *)
C19_FieldOrderIndependent ==
    (pc = "done" /\ fmt = "txt" /\ damage.kind \in DOMAIN TextPerms) =>
        /\ IsOk(back)
        /\ result = back

C19_Witness ==
    /\ pc = "done" /\ fmt = "txt"
    /\ damage = [kind |-> "reverse", unit |-> 2]
    /\ stream # WriteTo(fmt, recs)
    /\ IsOk(result) /\ Len(result.val) = 2
    /\ result = back

---------------------------------------------------------------------------
(* C20: a CSV or Text record whose description contains quotes and commas  *)
(* (and no line break), written and read back, has exactly the original    *)
(* description.                                                            *)
C20_DescriptionRoundTrip ==
    (pc = "done" /\ damage.kind = "none" /\ ~has_line_break(recs)) =>
        /\ IsOk(result)
        /\ Len(result.val) = Len(recs)
        /\ \A i \in 1..Len(recs) :
              result.val[i].description = recs[i].description

---------------------------------------------------------------------------
(* C21: converting a CSV or Text record to a canonical transaction fails   *)
(* with OverflowSize exactly when its amount is greater than i64::MAX and  *)
(* succeeds for every smaller amount; convert_to_transaction on a list     *)
(* that holds one such record fails as a whole, with OverflowSize.         *)
C21_OverflowExactlyAboveMax ==
    fmt \in {"csv", "txt"} =>
        /\ pc \in {"converted", "back"} =>
              IsOk(conv) /\ recs[1].amount <= I64_MAX
        /\ pc = "failed" =>
              conv = Err("OverflowSize", 0) /\ recs[1].amount > I64_MAX
        /\ pc = "collected" =>
              IF \E i \in 1..Len(recs) : recs[i].amount > I64_MAX
              THEN result = Err("OverflowSize", 0)
              ELSE IsOk(result) /\ Len(result.val) = Len(recs)

C21_Witness ==
    /\ pc = "collected" /\ fmt = "txt"
    /\ Len(recs) = 3
    /\ recs[1].amount = I64_MAX
    /\ recs[2].amount = I64_MAX + 1
    /\ recs[3].amount = 0
    /\ result = Err("OverflowSize", 0)

---------------------------------------------------------------------------
(* C22: read_from of CSV and Text returns Err(EmptyData) exactly when      *)
(* read_executor parses the input without error to zero records (a         *)
(* header-only CSV, a Text input of blank lines only) and never returns Ok *)
(* with an empty list; the output of writing an empty record list is       *)
(* therefore refused with EmptyData when it is read back.                  *)
C22_EmptyDataIffNoRecords ==
    (pc = "done" /\ ~exceeds_limit(input_len(stream, damage))) =>
        /\ result = Err("EmptyData", 0) <=> back = Ok(<<>>)
        /\ ~(IsOk(result) /\ result.val = <<>>)
        /\ (recs = <<>> /\ damage.unit = 0 /\ stream = WriteTo(fmt, recs)) =>
              result = Err("EmptyData", 0)
        /\ (damage.unit = 0 /\ stream \in RecordlessInputs(fmt)
                /\ (fmt = "csv" => stream # <<>>)) =>
              result = Err("EmptyData", 0)

C22_Witness ==
    /\ pc = "done" /\ fmt = "txt"
    /\ recs = <<>> /\ damage.unit = 0
    /\ Len(stream) = 8 /\ stream # WriteTo(fmt, recs)
    /\ back = Ok(<<>>)
    /\ result = Err("EmptyData", 0)

---------------------------------------------------------------------------
(* C23: the binary codec writes TxType as Deposit=0, Transfer=1,           *)
(* Withdrawal=2 and TxStatus as Success=0, Failure=1, Pending=2, and reads *)
(* every variant back as itself; a frame whose tx_type or status byte has  *)
(* any other value fails with ParseBinaryError.                            *)

\* the body of frame number i of a binary file
FrameBody(s, i) ==
    SubSeq(s, frame_start(s, i) + MAGIC_SIZE + 5, next_frame(s, frame_start(s, i)))

C23_EnumCodec ==
    fmt = "bin" =>
        /\ (pc = "written") =>
              \A i \in 1..Len(recs) :
                 /\ FrameBody(stream, i)[9] =
                       [Deposit |-> 0, Transfer |-> 1, Withdrawal |-> 2][recs[i].tx_type]
                 /\ FrameBody(stream, i)[42] =
                       [Success |-> 0, Failure |-> 1, Pending |-> 2][recs[i].status]
                 /\ \A b \in 3..255 :
                       /\ new_from_cursor(set_bytes(FrameBody(stream, i), 8, <<b>>))
                             = Err("ParseBinaryError", 0)
                       /\ new_from_cursor(set_bytes(FrameBody(stream, i), 41, <<b>>))
                             = Err("ParseBinaryError", 0)
        /\ (pc = "done" /\ damage.kind = "none") =>
              /\ IsOk(result) /\ Len(result.val) = Len(recs)
              /\ \A i \in 1..Len(recs) :
                    /\ result.val[i].tx_type = recs[i].tx_type
                    /\ result.val[i].status = recs[i].status
        /\ (pc = "done" /\ damage.kind \in {"tx_type", "status"}) =>
              result.kind = "ParseBinaryError"

C23_Witness ==
    /\ pc = "done" /\ fmt = "bin"
    /\ damage = [kind |-> "status", unit |-> 2]
    /\ Len(recs) = 2
    /\ recs[1].tx_type = "Withdrawal" /\ recs[2].status = "Pending"
    /\ FrameBody(stream, 2)[42] = 99
    /\ result.kind = "ParseBinaryError"

---------------------------------------------------------------------------
(* C24: the Text reader does not panic on malformed input: it returns Ok   *)
(* or Err; whenever parse_block is called its block holds at least the     *)
(* title (block[1..] is in range) and end_line is not less than the length *)
(* of the block (first_line does not go below zero); whenever clean_quote  *)
(* slices a value, its range is within the value.                          *)

\* the value split_into_key_value hands to clean_quote, for a line with a
\* colon
value_of(line) == trim(SubSeq(line, find_from(line, ":", 1) + 1, Len(line)))

\* the slice clean_quote takes of value, if it takes one, is in range
slice_in_range(value) ==
    clean_quote_range(value) # None =>
        /\ clean_quote_range(value)[1].start <= clean_quote_range(value)[1].end
        /\ clean_quote_range(value)[1].end <= Len(value)

---------------------------------------------------------------------------
(* C25: read_from applied to the output of the binary write_to returns a   *)
(* list of the same length and order in which every record equals the      *)
(* original in tx_id, tx_type, amount, timestamp, status and description,  *)
(* has from_user_id and to_user_id of the original except for the side the *)
(* writer zeroes, and has desc_len equal to the byte length of the         *)
(* description.                                                            *)
C25_BinaryRoundTrip ==
    (fmt = "bin" /\ pc = "done" /\ damage.kind = "none") =>
        /\ IsOk(result)
        /\ Len(result.val) = Len(recs)
        /\ \A i \in 1..Len(recs) :
              /\ result.val[i].tx_id = recs[i].tx_id
              /\ result.val[i].tx_type = recs[i].tx_type
              /\ result.val[i].amount = recs[i].amount
              /\ result.val[i].timestamp = recs[i].timestamp
              /\ result.val[i].status = recs[i].status
              /\ result.val[i].description = recs[i].description
              /\ result.val[i].from_user_id =
                    IF recs[i].tx_type = "Deposit" THEN 0 ELSE recs[i].from_user_id
              /\ result.val[i].to_user_id =
                    IF recs[i].tx_type = "Withdrawal" THEN 0 ELSE recs[i].to_user_id
              /\ result.val[i].desc_len =
                    IF recs[i].description = None THEN 0
                    ELSE Len(as_bytes(recs[i].description[1]))

---------------------------------------------------------------------------
(* C26: in the binary reader every buffer whose size comes from a length   *)
(* field of the input (body from BODY_LEN, desc_buf from desc_len) is      *)
(* allocated only when that length is within the size ceiling or within    *)
(* the bytes that remain to fill it; an oversized length yields an error   *)
(* without the allocation.                                                 *)
C26_AllocationAfterCheck ==
    fmt = "bin" =>
        \A k \in 1..Len(rd.allocated) :
            \/ rd.allocated[k].size <= MAX_SIZE_BIN_BYTES
            \/ rd.allocated[k].size <= rd.allocated[k].remaining

---------------------------------------------------------------------------
(* C27: in the Text reader a blank line is a block boundary: the KEY:      *)
(* value lines that follow a blank line without a new title are not        *)
(* absorbed into the preceding block.  A block cut by a blank line after   *)
(* its title, or after the fourth line of its body, therefore yields no    *)
(* record: the lines before the blank line lack fields and the lines after *)
(* it stand outside a block.                                               *)
C27_BlankLineEndsBlock ==
    (pc = "done" /\ fmt = "txt" /\ damage.kind \in TextBlankEdits) =>
        IsErr(result)

---------------------------------------------------------------------------
(* C28: every ParseError the Text reader raises for a bad line (a bad      *)
(* title, a line outside a block, an unknown or duplicate key, a malformed *)
(* key: value line) carries the source line number of that line, counted   *)
(* from 1, also when blank lines stand inside or after the block.          *)

\* the numbers of the lines given so far that are not blank
consumed_lines == {j \in 1..rd.count : ~is_empty_line(lines(stream)[j])}

\* the source line number of line k of the block collected
block_source_line(k) ==
    nth_index(consumed_lines,
              Cardinality(consumed_lines) - Len(rd.st.block_buffer) + k)

\* whether line k of a block is refused by parse_block, the lines before
\* it being accepted
bad_body_line(block, k) ==
    \/ split_into_key_value(block[k]) = None
    \/ ~has_field_from_str(split_into_key_value(block[k])[1].key)
    \/ \E j \in 2..(k - 1) :
          /\ split_into_key_value(block[j]) # None
          /\ split_into_key_value(block[j])[1].key
                = split_into_key_value(block[k])[1].key

\* the first line of a block that parse_block refuses
first_bad_line(block) ==
    first_index({k \in 2..Len(block) :
                    /\ bad_body_line(block, k)
                    /\ \A j \in 2..(k - 1) : ~bad_body_line(block, j)})

\* the source line number of the line that made the reader fail with
\* ParseError
offending_line ==
    IF loop_arm(rd) \in {"open", "stray"} THEN rd.count + 1
    ELSE IF loop_arm(rd) = "next" /\ IsOk(parse_block(rd.st.block_buffer, rd.count))
         THEN rd.count + 1
    ELSE block_source_line(first_bad_line(rd.st.block_buffer))

C28_ErrorLineNumbers ==
    (pc = "done" /\ result.kind = "ParseError") => result.line = offending_line

---------------------------------------------------------------------------
(* C29: for every CSV record whose description contains a line break,      *)
(* reading back the output of write_to fails with an error; it never       *)
(* succeeds with records that differ from the ones written.                *)
C29_LineBreakRejected ==
    (pc = "done" /\ fmt = "csv" /\ damage.kind = "none" /\ has_line_break(recs)) =>
        IsErr(result)

---------------------------------------------------------------------------
(* The quoted field of a CSV line, as the text between its quotes *)

\* the text between the last comma before position q and position q
pending_field(line, q) ==
    LET commas == {k \in 1..(q - 1) : line[k] = ","} IN
    SubSeq(line, IF commas = {} THEN 1 ELSE last_index(commas) + 1, q - 1)

RECURSIVE closing_quote(_, _)
\* position of the first quote at or after index i that is not the first
\* of a doubled quote, one past the end of the line when there is none
closing_quote(line, i) ==
    IF i > Len(line) THEN Len(line) + 1
    ELSE IF line[i] = "\""
         THEN IF i < Len(line) /\ line[i + 1] = "\""
              THEN closing_quote(line, i + 2)
              ELSE i
    ELSE closing_quote(line, i + 1)

\* the text between the opening quote at position q and its closing
\* quote, every doubled quote made one
unescaped_text(line, q) ==
    replace_quote_pairs(SubSeq(line, q + 1, closing_quote(line, q + 1) - 1))

\* the line has an opening quote met with an empty pending field
quote_opens_field(line) ==
    /\ find_from(line, "\"", 1) # 0
    /\ trim(pending_field(line, find_from(line, "\"", 1))) = <<>>

(* C30: in split_csv_line, once the opening quote of a field is met with   *)
(* an empty pending field, the result is always Some; the quoted field is  *)
(* the last field returned; its content is the unescaped text up to the    *)
(* first unmatched closing quote or, when there is none, up to the end of  *)
(* the line; the characters after the closing quote have no effect on the  *)
(* result.                                                                 *)
C30_QuotedFieldLast ==
    (pc = "done" /\ quote_opens_field(stream)) =>
        LET q == find_from(stream, "\"", 1)
            close == closing_quote(stream, q + 1)
            closed == IF close > Len(stream) THEN Len(stream) ELSE close
        IN  /\ result.kind = "Some"
            /\ Len(result.val) =
                   Cardinality({k \in 1..(q - 1) : stream[k] = ","}) + 1
            /\ result.val[Len(result.val)] = unescaped_text(stream, q)
            /\ split_csv_line(SubSeq(stream, 1, closed)) = Some(result.val)

============================================================================
